---- MODULE Spec2Model ----
(***************************************************************************)
(* Model of app.py (App Personal): the body-composition metrics engine and *)
(* the record store of assessments (avaliacoes_db.csv) and workout entries *)
(* (registro_treinos.csv / table treinos).                                 *)
(*                                                                         *)
(* Cell values.  Every cell of a dataframe, dict or CSV file is a tuple:   *)
(*   <<>>            Python None                                           *)
(*   <<0, 0>>        float NaN (what pandas reads from an empty CSV cell)  *)
(*   <<n, d>>        the number n/d, d > 0, in lowest terms                *)
(*   <<s>>           the text s (dates are ISO texts)                      *)
(*   <<t, n, d, i>>  an identifier string: t = "h" for str(abs(hash(       *)
(*                   Nome|Data|index))), t = "r" for the hash of           *)
(*                   Nome|Data|urandom.  hash is modelled as injective     *)
(*                   within the life of the process.                       *)
(* Floats are modelled as exact rationals.                                 *)
(***************************************************************************)
EXTENDS Integers, Sequences, FiniteSets, TLC

None == <<>>
NaN == <<0, 0>>

RECURSIVE GCD(_, _)
GCD(a, b) == IF b = 0 THEN a ELSE GCD(b, a % b)

Abs(n) == IF n < 0 THEN -n ELSE n

\* the rational n/d (d > 0) in lowest terms
Rat(n, d) == LET g == GCD(Abs(n), d) IN <<n \div g, d \div g>>

Num(n) == <<n, 1>>
Str(s) == <<s>>

IsNone(x) == x = None
IsNaN(x) == x = NaN
IsNumber(x) == Len(x) = 2 /\ x[2] > 0
IsText(x) == Len(x) = 1
\* pandas isna()/notna(): None and NaN are both missing
IsNA(x) == IsNone(x) \/ IsNaN(x)

\* float arithmetic with NaN propagation; comparisons with NaN are False
LCM(a, b) == (a \div GCD(a, b)) * b
RAdd(x, y) ==
    IF IsNaN(x) \/ IsNaN(y) THEN NaN
    ELSE LET l == LCM(x[2], y[2])
         IN Rat(x[1] * (l \div x[2]) + y[1] * (l \div y[2]), l)
RNeg(x) == IF IsNaN(x) THEN NaN ELSE <<-x[1], x[2]>>
RSub(x, y) == RAdd(x, RNeg(y))
RMul(x, y) ==
    IF IsNaN(x) \/ IsNaN(y) THEN NaN
    ELSE LET g1 == GCD(Abs(x[1]), y[2])
             g2 == GCD(Abs(y[1]), x[2])
         IN Rat((x[1] \div g1) * (y[1] \div g2), (x[2] \div g2) * (y[2] \div g1))
\* x / y for y > 0 (every caller guards y <= 0 first)
RDiv(x, y) ==
    IF IsNaN(x) \/ IsNaN(y) THEN NaN
    ELSE RMul(x, <<y[2], y[1]>>)
RLt(x, y) == ~IsNaN(x) /\ ~IsNaN(y) /\ x[1] * y[2] < y[1] * x[2]
RLe(x, y) == ~IsNaN(x) /\ ~IsNaN(y) /\ x[1] * y[2] <= y[1] * x[2]

(***************************************************************************)
(* Metrics engine                                                          *)
(***************************************************************************)

\* the conversion that keeps a zero whatever treat_zero_as_none says
_to_float_or_none_KeepsZero(x, treat_zero_as_none) ==
    IF IsNone(x) THEN None
    ELSE IF IsNaN(x) THEN NaN
    ELSE IF ~IsNumber(x) THEN None
    ELSE x
\* float(x) raises for None (caught), for text that is not a number
\* (caught); float(nan) is nan and abs(nan) < 1e-12 is False.
_to_float_or_none(x, treat_zero_as_none) ==
    IF IsNone(x) THEN None
    ELSE IF IsNaN(x) THEN NaN
    ELSE IF ~IsNumber(x) THEN None
    ELSE IF treat_zero_as_none /\ x[1] = 0 THEN None
    ELSE x

\* _calc_imc giving 0 instead of None for a height that is not positive
_calc_imc_ZeroForBadHeight(peso, altura) ==
    IF IsNone(peso) \/ IsNone(altura) THEN None
    ELSE IF RLe(altura, Num(0)) THEN Num(0)
    ELSE RDiv(peso, RMul(altura, altura))

_calc_imc(peso, altura) ==
    IF IsNone(peso) \/ IsNone(altura) THEN None
    ELSE IF RLe(altura, Num(0)) THEN None
    ELSE RDiv(peso, RMul(altura, altura))

_classificacao_imc(imc) ==
    IF IsNone(imc) THEN None
    ELSE IF RLt(imc, <<37, 2>>) THEN Str("Baixo peso")
    ELSE IF RLt(imc, Num(25)) THEN Str("Peso normal")
    ELSE IF RLt(imc, Num(30)) THEN Str("Sobrepeso")
    ELSE IF RLt(imc, Num(35)) THEN Str("Obesidade Grau I")
    ELSE IF RLt(imc, Num(40)) THEN Str("Obesidade Grau II")
    ELSE Str("Obesidade Grau III")

Scale7 == 10000000

\* c0 - c1*s + c2*s^2 - c3*idade, coefficients in units of 1e-7
JP3(c0, c1, c2, c3, s, idade) ==
    RSub(RAdd(RSub(<<c0, Scale7>>, RMul(<<c1, Scale7>>, s)),
              RMul(<<c2, Scale7>>, RMul(s, s))),
         RMul(<<c3, Scale7>>, idade))

\* the density with the chest fold required for women
_calc_dc_jp3_MulherPeitoral(sexo, idade, d_pe, d_ab, d_cx, d_si, d_tr) ==
    IF sexo \notin {Str("Homem"), Str("Mulher")} THEN None
    ELSE IF IsNone(idade) THEN None
    ELSE IF sexo = Str("Homem")
         THEN IF IsNone(d_pe) \/ IsNone(d_ab) \/ IsNone(d_cx) THEN None
              ELSE JP3(11093800, 8267, 16, 2574,
                       RAdd(RAdd(d_pe, d_ab), d_cx), idade)
         ELSE IF IsNone(d_pe) \/ IsNone(d_si) \/ IsNone(d_cx) THEN None
              ELSE JP3(10994921, 9929, 23, 1392,
                       RAdd(RAdd(d_pe, d_si), d_cx), idade)
_calc_dc_jp3(sexo, idade, d_pe, d_ab, d_cx, d_si, d_tr) ==
    IF sexo \notin {Str("Homem"), Str("Mulher")} THEN None
    ELSE IF IsNone(idade) THEN None
    ELSE IF sexo = Str("Homem")
         THEN IF IsNone(d_pe) \/ IsNone(d_ab) \/ IsNone(d_cx) THEN None
              ELSE JP3(11093800, 8267, 16, 2574,
                       RAdd(RAdd(d_pe, d_ab), d_cx), idade)
         ELSE IF IsNone(d_tr) \/ IsNone(d_si) \/ IsNone(d_cx) THEN None
              ELSE JP3(10994921, 9929, 23, 1392,
                       RAdd(RAdd(d_tr, d_si), d_cx), idade)

\* the fat percentage that is zero for a density that is not positive
_calc_gordura_siri_ZeroForBadDensity(dc) ==
    IF IsNone(dc) THEN None
    ELSE IF RLe(dc, Num(0)) THEN Num(0)
    ELSE IF IsNaN(dc) THEN NaN
    ELSE Rat(45 * (11 * dc[2] - 10 * dc[1]), dc[1])
\* 495/dc - 450, written 45*(11*d - 10*n)/n for dc = n/d so that the
\* intermediate values stay within 32-bit integers
_calc_gordura_siri(dc) ==
    IF IsNone(dc) THEN None
    ELSE IF RLe(dc, Num(0)) THEN None
    ELSE IF IsNaN(dc) THEN NaN
    ELSE Rat(45 * (11 * dc[2] - 10 * dc[1]), dc[1])

_calc_rcq(cc, cq) ==
    IF IsNone(cc) \/ IsNone(cq) THEN None
    ELSE IF RLe(cq, Num(0)) THEN None
    ELSE RDiv(cc, cq)

\* the risk with the women's upper threshold inclusive
_classificacao_rcq_MulherInclusive(sexo, rcq) ==
    IF IsNone(rcq) \/ sexo \notin {Str("Homem"), Str("Mulher")} THEN None
    ELSE IF sexo = Str("Homem")
         THEN IF RLt(rcq, <<9, 10>>) THEN Str("Baixo Risco")
              ELSE IF RLt(rcq, Num(1)) THEN Str("Risco Moderado")
              ELSE Str("Alto Risco")
         ELSE IF RLt(rcq, <<4, 5>>) THEN Str("Baixo Risco")
              ELSE IF RLe(rcq, <<17, 20>>) THEN Str("Risco Moderado")
              ELSE Str("Alto Risco")
_classificacao_rcq(sexo, rcq) ==
    IF IsNone(rcq) \/ sexo \notin {Str("Homem"), Str("Mulher")} THEN None
    ELSE IF sexo = Str("Homem")
         THEN IF RLt(rcq, <<9, 10>>) THEN Str("Baixo Risco")
              ELSE IF RLt(rcq, Num(1)) THEN Str("Risco Moderado")
              ELSE Str("Alto Risco")
         ELSE IF RLt(rcq, <<4, 5>>) THEN Str("Baixo Risco")
              ELSE IF RLt(rcq, <<17, 20>>) THEN Str("Risco Moderado")
              ELSE Str("Alto Risco")

\* dict.get(key): None when the key is missing
Get(row, c) == IF c \in DOMAIN row THEN row[c] ELSE None

\* "if <col> in base_cols [and gordura is not None]: out[<col>] = v"
Put(out, c, cond, v) ==
    IF cond THEN [k \in DOMAIN out \cup {c} |-> IF k = c THEN v ELSE out[k]]
    ELSE out

\* 100 - gordura
MassaMagra(gordura) == RSub(Num(100), gordura)

_recompute_derived(row, base_cols) ==
    LET out0 == [c \in base_cols |-> Get(row, c)]
        sexo == Get(out0, "Sexo")
        idade == _to_float_or_none(Get(out0, "Idade"), TRUE)
        peso == _to_float_or_none(Get(out0, "Peso"), TRUE)
        altura == _to_float_or_none(Get(out0, "Altura"), TRUE)
        d_pe == _to_float_or_none(Get(out0, "D PE"), TRUE)
        d_ab == _to_float_or_none(Get(out0, "D AB"), TRUE)
        d_cx == _to_float_or_none(Get(out0, "D CX"), TRUE)
        d_si == _to_float_or_none(Get(out0, "D SI"), TRUE)
        d_tr == _to_float_or_none(Get(out0, "D TR"), TRUE)
        cc == _to_float_or_none(Get(out0, "CC"), TRUE)
        cq == _to_float_or_none(Get(out0, "CQ"), TRUE)
        imc == _calc_imc(peso, altura)
        imc_cls == _classificacao_imc(imc)
        dc == _calc_dc_jp3(sexo, idade, d_pe, d_ab, d_cx, d_si, d_tr)
        gordura == _calc_gordura_siri(dc)
        rcq == _calc_rcq(cc, cq)
        out1 == Put(out0, "IMC", TRUE, imc)
        out2 == Put(out1, "Classificação", TRUE, imc_cls)
        out3 == Put(out2, "Classificação IMC", "Classificação IMC" \in base_cols, imc_cls)
        out4 == Put(out3, "DC", "DC" \in base_cols, dc)
        out5 == Put(out4, "G", "G" \in base_cols, gordura)
        out6 == Put(out5, "% Gordura",
                    "% Gordura" \in base_cols /\ ~IsNone(gordura), gordura)
        out7 == Put(out6, "MM",
                    "MM" \in base_cols /\ ~IsNone(gordura), MassaMagra(gordura))
        out8 == Put(out7, "% Massa Magra",
                    "% Massa Magra" \in base_cols /\ ~IsNone(gordura),
                    MassaMagra(gordura))
        out9 == Put(out8, "RCQ", TRUE, rcq)
    IN Put(out9, "RISCO", TRUE, _classificacao_rcq(sexo, rcq))

(***************************************************************************)
(* Dataframes, CSV files and identifiers                                   *)
(***************************************************************************)

\* a dataframe: a set of column names and a sequence of rows, each row a
\* function from the columns to cells; the index of a row is its position
Frame(cols, rows) == [cols |-> cols, rows |-> rows]
EmptyFrame == Frame({}, <<>>)
NoFile == [exists |-> FALSE, cols |-> {}, rows |-> <<>>]

\* str.strip() on the texts of the model
Strip(s) == CASE s = " Alex " -> "Alex" [] s = " " -> "" [] OTHER -> s

ValidDates == {Str("2024-01-01"), Str("2024-02-01")}

\* pd.to_datetime(x, errors="coerce") followed by .dt.date: NaT when the
\* cell is not a date
_safe_to_datetime(x) == IF x \in ValidDates THEN x ELSE NaN

_to_date_col(df, col) ==
    IF col \in df.cols
    THEN Frame(df.cols, [i \in DOMAIN df.rows |->
                           [df.rows[i] EXCEPT ![col] = _safe_to_datetime(@)]])
    ELSE df

\* texts that pd.read_csv reads back as missing
NaTexts == {Str(""), Str("nan"), Str("NaN"), Str("None"), Str("NA"), Str("NaT")}

\* df.to_csv: None, NaN and NaT are written as an empty cell
CsvCell(v) == IF IsNA(v) \/ v \in NaTexts THEN None ELSE v

_write_csv(df) ==
    [exists |-> TRUE, cols |-> df.cols,
     rows |-> [i \in DOMAIN df.rows |-> [c \in df.cols |-> CsvCell(df.rows[i][c])]]]

\* pd.read_csv: an empty cell is NaN
_read_csv(file) ==
    IF file.exists
    THEN Frame(file.cols,
               [i \in DOMAIN file.rows |->
                  [c \in file.cols |-> IF IsNone(file.rows[i][c]) THEN NaN
                                       ELSE file.rows[i][c]]])
    ELSE EmptyFrame

\* astype(str) of a Nome cell / of a datetime cell
NomeStr(x) == IF IsNone(x) THEN "None" ELSE IF IsNaN(x) THEN "nan"
              ELSE IF IsText(x) THEN Strip(x[1]) ELSE "num"
DataStr(x) == IF _safe_to_datetime(x) = NaN THEN "NaT" ELSE x[1]

\* HashId without the row index in the hashed text
HashId_NoIndex(nome, data, index) == <<"h", NomeStr(nome), DataStr(data), 0>>

\* str(abs(hash(Nome|Data|index)))
HashId(nome, data, index) == <<"h", NomeStr(nome), DataStr(data), index>>

\* IdMissing taking every ID for missing, so that _ensure_id writes them all
IdMissing_Always(id) == TRUE

\* df["ID"].isna() | (df["ID"].astype(str).str.strip() == "")
IdMissing(id) == IsNA(id) \/ (IsText(id) /\ Strip(id[1]) = "")

\* astype(str)
AsTypeStr(x) == IF IsNone(x) THEN Str("None") ELSE IF IsNaN(x) THEN Str("nan") ELSE x

_ensure_id(df) ==
    LET cols1 == df.cols \cup {"ID"}
        rows1 == IF "ID" \in df.cols THEN df.rows
                 ELSE [i \in DOMAIN df.rows |->
                         [c \in cols1 |-> IF c \in df.cols THEN df.rows[i][c] ELSE None]]
        synth == "Nome" \in cols1 /\ "Data" \in cols1
    IN Frame(cols1, [i \in DOMAIN rows1 |->
                        [rows1[i] EXCEPT !["ID"] =
                            IF synth /\ IdMissing(@)
                            THEN AsTypeStr(HashId(rows1[i]["Nome"], rows1[i]["Data"], i - 1))
                            ELSE AsTypeStr(@)]])

\* pd.concat([a, b], ignore_index=True): union of the columns, NaN where a
\* frame lacks a column
Concat(a, b) ==
    LET cols == a.cols \cup b.cols
        Fill(df) == IF df.cols = cols THEN df.rows
                    ELSE [i \in DOMAIN df.rows |->
                            [c \in cols |-> IF c \in df.cols THEN df.rows[i][c] ELSE NaN]]
    IN Frame(cols, Fill(a) \o Fill(b))

\* DropIds keeping the ticked rows instead of the others
DropIds_KeepsSelected(df, ids) ==
    Frame(df.cols, SelectSeq(df.rows, LAMBDA r : AsTypeStr(r["ID"]) \in ids))

\* df[~df["ID"].astype(str).isin(ids)]
DropIds(df, ids) ==
    Frame(df.cols, SelectSeq(df.rows, LAMBDA r : AsTypeStr(r["ID"]) \notin ids))

\* df[df["ID"].astype(str) == id]: positions of the matching rows
RowsWithId(df, id) == {i \in DOMAIN df.rows : AsTypeStr(df.rows[i]["ID"]) = id}

Min(S) == CHOOSE m \in S : \A n \in S : m <= n

Ids(df) == {AsTypeStr(df.rows[i]["ID"]) : i \in DOMAIN df.rows}

(***************************************************************************)
(* Bounds and input domains                                                *)
(***************************************************************************)

MaxAv == 2        \* rows of avaliacoes_db.csv beyond which no row is added
MaxUrandom == 1   \* os.urandom draws in a behaviour
MaxReg == 2       \* rows of the workout log beyond which nothing is appended
MaxFicha == 1     \* items of the unsaved ficha
MaxSessoes == 2   \* browser sessions running the script at the same time

\* a dict / dataframe row given as a sequence of <<column, cell>> pairs
Row(pairs) ==
    [c \in {pairs[i][1] : i \in DOMAIN pairs} |->
        LET i == CHOOSE j \in DOMAIN pairs : pairs[j][1] = c IN pairs[i][2]]

\* sheet AVALIACAO_FISICA of the workbook: raw columns and the sheet's own
\* derived columns (cell values as typed in the sheet)
WorkbookA ==
    Frame({"Nome", "Data", "Sexo", "Idade", "Peso", "Altura", "CC", "CQ", "CA",
           "D PE", "D AB", "D CX", "D SI", "D TR", "Observacoes",
           "IMC", "Classificação", "DC", "G", "MM", "RCQ", "RISCO"},
          << Row(<< <<"Nome", Str("Alex")>>, <<"Data", Str("2024-01-01")>>,
                    <<"Sexo", Str("Homem")>>, <<"Idade", Num(30)>>,
                    <<"Peso", Num(80)>>, <<"Altura", <<9, 5>> >>,
                    <<"CC", Num(90)>>, <<"CQ", Num(100)>>, <<"CA", Num(95)>>,
                    <<"D PE", Num(10)>>, <<"D AB", Num(15)>>, <<"D CX", Num(12)>>,
                    <<"D SI", NaN>>, <<"D TR", NaN>>, <<"Observacoes", NaN>>,
                    <<"IMC", <<2469, 100>> >>, <<"Classificação", Str("Peso normal")>>,
                    <<"DC", <<10733, 10000>> >>, <<"G", <<56, 5>> >>,
                    <<"MM", <<444, 5>> >>, <<"RCQ", <<9, 10>> >>,
                    <<"RISCO", Str("Risco Moderado")>> >>) >>)

\* a sheet without CA, Observacoes and IMC columns, body fat under the
\* names "% Gordura" / "% Massa Magra"
WorkbookB ==
    Frame({"Nome", "Data", "Sexo", "Idade", "Peso", "Altura", "CC", "CQ",
           "D PE", "D AB", "D CX", "D SI", "D TR", "% Gordura", "% Massa Magra"},
          << Row(<< <<"Nome", Str("Bia")>>, <<"Data", Str("2024-02-01")>>,
                    <<"Sexo", Str("Mulher")>>, <<"Idade", NaN>>,
                    <<"Peso", Num(60)>>, <<"Altura", <<8, 5>> >>,
                    <<"CC", Num(68)>>, <<"CQ", Num(80)>>,
                    <<"D PE", NaN>>, <<"D AB", NaN>>, <<"D CX", Num(20)>>,
                    <<"D SI", Num(12)>>, <<"D TR", Num(15)>>,
                    <<"% Gordura", Num(20)>>, <<"% Massa Magra", Num(80)>> >>) >>)

\* EmptyFrame: no workbook, no sheet AVALIACAO_FISICA, or an empty sheet
Workbooks == {WorkbookA, WorkbookB, EmptyFrame}

\* the values of the widgets of the add / edit assessment form
Form(nome, data, sexo, idade, peso, altura, d_pe, d_ab, d_cx, d_si, d_tr, cc, cq, ca, obs) ==
    Row(<< <<"Nome", Str(nome)>>, <<"Data", Str(data)>>, <<"Sexo", Str(sexo)>>,
           <<"Idade", idade>>, <<"Peso", peso>>, <<"Altura", altura>>,
           <<"D PE", d_pe>>, <<"D AB", d_ab>>, <<"D CX", d_cx>>,
           <<"D SI", d_si>>, <<"D TR", d_tr>>,
           <<"CC", cc>>, <<"CQ", cq>>, <<"CA", ca>>, <<"Observacoes", Str(obs)>> >>)

FormHomem ==
    Form(" Alex ", "2024-01-01", "Homem", Num(30), Num(80), <<9, 5>>,
         Num(10), Num(15), Num(12), Num(0), Num(0), Num(90), Num(100), Num(95), "")
\* FormHomem with the chest skinfold left at 0
FormSemPeitoral ==
    Form("Alex", "2024-01-01", "Homem", Num(30), Num(80), <<9, 5>>,
         Num(0), Num(15), Num(12), Num(0), Num(0), Num(90), Num(100), Num(95), "")
FormMulher ==
    Form("Bia", "2024-02-01", "Mulher", Num(30), Num(60), <<8, 5>>,
         Num(0), Num(0), Num(20), Num(12), Num(15), Num(68), Num(80), Num(0), "ok")
\* the add form submitted without a name
FormSemNome ==
    Form(" ", "2024-01-01", "Homem", Num(30), Num(80), <<9, 5>>,
         Num(0), Num(0), Num(0), Num(0), Num(0), Num(0), Num(0), Num(0), "")

\* the add form with weight and hip left at 0
FormSemPeso ==
    Form("Bia", "2024-02-01", "Mulher", Num(30), Num(0), <<8, 5>>,
         Num(0), Num(0), Num(20), Num(12), Num(15), Num(68), Num(0), Num(0), "ok")

AvForms == {FormHomem, FormSemPeitoral, FormMulher, FormSemNome, FormSemPeso}

\* the values submitted with the edit form
EditForms == {FormSemPeitoral, FormMulher}

(***************************************************************************)
(* State                                                                   *)
(***************************************************************************)

VARIABLES
    kind,                \* the record kind a behaviour works on
    xlsx,                \* sheet AVALIACAO_FISICA of the uploaded / default workbook
    avaliacoes_csv,      \* the file AVALIACOES_DB_PATH
    urandom,             \* number of os.urandom(6) values drawn
    confirm_delete,      \* st.session_state["confirm_delete"]
    db_enabled,          \* _db_enabled(): DATABASE_URL is configured
    registro_csv,        \* the file REGISTRO_PATH
    treinos_sql,         \* the table treinos
    avaliacoes_sql,      \* the table avaliacoes
    sessoes,             \* per browser session: the script run in progress
    ficha,               \* st.session_state["ficha"]
    confirm_del_treinos, \* st.session_state["confirm_del_treinos"]
    edit_treino_id,      \* st.session_state["edit_treino_id"]
    IS_STUDENT,          \* the script's IS_STUDENT: toggle "Modo aluno (somente leitura)"
    last                 \* the handler that ran last, with its inputs

avVars == <<xlsx, avaliacoes_csv, urandom, confirm_delete>>
regVars == <<db_enabled, registro_csv, treinos_sql, ficha, confirm_del_treinos,
             edit_treino_id>>
vars == <<kind, IS_STUDENT, avVars, regVars, avaliacoes_sql, sessoes, last>>

\* the browser sessions; each runs the script in a thread of its own
Sessoes == 1..MaxSessoes

\* a session whose script run is over: it holds no dataframe
SessaoParada == [pc |-> "idle", df |-> EmptyFrame]

NoRow == [c \in {} |-> None]
Op(op, ok, ids, id, row) == [op |-> op, ok |-> ok, ids |-> ids, id |-> id, row |-> row]

(***************************************************************************)
(* Assessments                                                             *)
(***************************************************************************)

_save_avaliacoes_db(df) == _write_csv(_to_date_col(df, "Data"))

\* _load_or_init_avaliacoes_db without the os.path.exists test: the sheet is
\* imported on every load
LoadOrInit_AlwaysImports(avaliacao_xlsx, file) ==
    LET base == _ensure_id(_to_date_col(avaliacao_xlsx, "Data"))
    IN [db |-> base, file |-> _write_csv(base)]

\* what _load_or_init_avaliacoes_db returns (db) and leaves on disk (file)
_load_or_init_avaliacoes_db(avaliacao_xlsx, file) ==
    IF file.exists
    THEN [db |-> _ensure_id(_to_date_col(_read_csv(file), "Data")), file |-> file]
    ELSE LET base == _ensure_id(_to_date_col(avaliacao_xlsx, "Data"))
         IN [db |-> base, file |-> _write_csv(base)]

\* the startup load sequence stops the script when the sheet is missing or empty
SheetOk(sheet) == sheet.rows # <<>>

\* the database as the script holds it after line 862
avaliacao_db == _to_date_col(_load_or_init_avaliacoes_db(xlsx, avaliacoes_csv).db, "Data")

\* names offered by the sidebar selectbox
Nomes(db) ==
    IF "Nome" \in db.cols
    THEN {NomeStr(db.rows[i]["Nome"]) : i \in {j \in DOMAIN db.rows :
             ~IsNA(db.rows[j]["Nome"]) /\ NomeStr(db.rows[j]["Nome"]) # ""}}
    ELSE {}

\* av: positions of the rows of db that pass the name filter nome_sel and
\* the period filter (a row without a date never passes)
AvView(db, nome_sel) ==
    {i \in DOMAIN db.rows :
        /\ Nomes(db) # {} => (IsText(db.rows[i]["Nome"]) /\ db.rows[i]["Nome"][1] = nome_sel)
        /\ "Data" \in db.cols => ~IsNA(db.rows[i]["Data"])}

NomeSels(db) == IF Nomes(db) = {} THEN {"(sem nomes)"} ELSE Nomes(db)

\* a script run without any button pressed
Rerun ==
    /\ SheetOk(xlsx)
    /\ avaliacoes_csv' = _load_or_init_avaliacoes_db(xlsx, avaliacoes_csv).file
    /\ last' = Op("rerun", TRUE, {}, None, NoRow)
    /\ UNCHANGED <<kind, IS_STUDENT, avaliacoes_sql, sessoes, xlsx, urandom, confirm_delete, regVars>>

\* the file uploader receives a workbook (or is cleared); the script reruns
UploadExcel(wb) ==
    /\ ~IS_STUDENT
    /\ kind = "avaliacoes"
    /\ xlsx' = wb
    /\ avaliacoes_csv' = IF SheetOk(wb)
                         THEN _load_or_init_avaliacoes_db(wb, avaliacoes_csv).file
                         ELSE avaliacoes_csv
    /\ last' = Op("upload", SheetOk(wb), {}, None, NoRow)
    /\ UNCHANGED <<kind, IS_STUDENT, avaliacoes_sql, sessoes, urandom, confirm_delete, regVars>>

\* button "Reinicializar avaliações com o Excel enviado"
Reinicializar ==
    /\ ~IS_STUDENT
    /\ kind = "avaliacoes"
    /\ SheetOk(xlsx)
    /\ avaliacoes_csv.exists
    /\ avaliacoes_csv' = _save_avaliacoes_db(_ensure_id(_to_date_col(xlsx, "Data")))
    /\ last' = Op("reinit", TRUE, {}, None, NoRow)
    /\ UNCHANGED <<kind, IS_STUDENT, avaliacoes_sql, sessoes, xlsx, urandom, confirm_delete, regVars>>

\* the raw fields the add and edit handlers take from the form
FormRaw(row, f, base_cols) ==
    LET r1 == [c \in DOMAIN row \cup (DOMAIN f \ {"Observacoes"}) |->
                 IF c = "Nome" THEN Str(Strip(f[c][1]))
                 ELSE IF c \in {"Data", "Sexo"} THEN f[c]
                 ELSE IF c \in DOMAIN f \ {"Observacoes"}
                      THEN _to_float_or_none(f[c], TRUE)
                 ELSE row[c]]
    IN Put(r1, "Observacoes", "Observacoes" \in base_cols, f["Observacoes"])

\* str(abs(hash(f"{Nome}|{Data}|{os.urandom(6).hex()}"))); the n-th draw of
\* os.urandom differs from every other draw
RandomId(row, n) == <<"r", NomeStr(row["Nome"]), DataStr(row["Data"]), n>>

\* the row the add handler builds from the form f
NovaAvaliacao(f, base_cols, n) ==
    LET row0 == [c \in base_cols |-> None]
        row1 == _recompute_derived(FormRaw(row0, f, base_cols), base_cols)
    IN Put(row1, "ID", TRUE, RandomId(row1, n))

\* form submit "Salvar avaliação"; db is avaliacao_db of this script run
SalvarAvaliacao(db, f) ==
    /\ ~IS_STUDENT
    /\ kind = "avaliacoes"
    /\ SheetOk(xlsx)
    /\ avaliacoes_csv.exists
    /\ IF Strip(f["Nome"][1]) = "" \/ f["Sexo"] \notin {Str("Homem"), Str("Mulher")}
       THEN /\ last' = Op("add_av", FALSE, {}, None, f)
            /\ UNCHANGED <<avaliacoes_csv, urandom>>
       ELSE /\ Len(avaliacoes_csv.rows) < MaxAv
            /\ urandom < MaxUrandom
            /\ LET row == NovaAvaliacao(f, db.cols, urandom)
               IN /\ avaliacoes_csv' = _save_avaliacoes_db(
                         _ensure_id(Concat(db, Frame(DOMAIN row, <<row>>))))
                  /\ last' = Op("add_av", TRUE, {}, row["ID"], f)
            /\ urandom' = urandom + 1
    /\ UNCHANGED <<kind, IS_STUDENT, avaliacoes_sql, sessoes, xlsx, confirm_delete, regVars>>

\* the edit form cannot be drawn for a row without age: int(nan) raises
EditFormOk(row0) == ~IsNA(Get(row0, "Idade"))

\* the row the edit handler writes over the rows with ID sel_id
AvaliacaoEditada(row0, f, base_cols, sel_id) ==
    LET updated == Put(_recompute_derived(FormRaw(row0, f, base_cols), base_cols),
                       "ID", TRUE, sel_id)
    IN [c \in base_cols |-> updated[c]]

\* form submit "Salvar alterações" for the assessment chosen in the selectbox
SalvarAlteracoes(db, nome_sel, sel_id, f) ==
    /\ ~IS_STUDENT
    /\ kind = "avaliacoes"
    /\ SheetOk(xlsx)
    /\ avaliacoes_csv.exists
    /\ nome_sel \in NomeSels(db)
    /\ sel_id \in {AsTypeStr(db.rows[i]["ID"]) : i \in AvView(db, nome_sel)}
    /\ LET row0 == db.rows[Min(RowsWithId(db, sel_id))]
           updated == AvaliacaoEditada(row0, f, db.cols, sel_id)
       IN /\ EditFormOk(row0)
          /\ avaliacoes_csv' = _save_avaliacoes_db(
                 Frame(db.cols, [i \in DOMAIN db.rows |->
                                   IF i \in RowsWithId(db, sel_id) THEN updated
                                   ELSE db.rows[i]]))
          /\ last' = Op("edit_av", TRUE, {}, sel_id, f)
    /\ UNCHANGED <<kind, IS_STUDENT, avaliacoes_sql, sessoes, xlsx, urandom, confirm_delete, regVars>>

\* av_view is not empty for some choice of the name filter
AlgumaVisivel(db) == \E nome_sel \in NomeSels(db) : AvView(db, nome_sel) # {}

\* button "Excluir selecionadas" with at least one row ticked
ExcluirSelecionadas(db, nome_sel, selected_ids) ==
    /\ ~IS_STUDENT
    /\ kind = "avaliacoes"
    /\ SheetOk(xlsx)
    /\ avaliacoes_csv.exists
    /\ nome_sel \in NomeSels(db)
    /\ selected_ids # {}
    /\ selected_ids \subseteq {AsTypeStr(db.rows[i]["ID"]) : i \in AvView(db, nome_sel)}
    /\ confirm_delete' = TRUE
    /\ last' = Op("ask_delete_av", TRUE, selected_ids, None, NoRow)
    /\ UNCHANGED <<kind, IS_STUDENT, avaliacoes_sql, sessoes, xlsx, avaliacoes_csv, urandom, regVars>>

\* button "Confirmar exclusão" with the rows selected_ids ticked in the editor
ConfirmarExclusao(db, nome_sel, selected_ids) ==
    /\ kind = "avaliacoes"
    /\ SheetOk(xlsx)
    /\ avaliacoes_csv.exists
    /\ confirm_delete
    /\ nome_sel \in NomeSels(db)
    /\ AvView(db, nome_sel) # {}
    /\ selected_ids \subseteq {AsTypeStr(db.rows[i]["ID"]) : i \in AvView(db, nome_sel)}
    /\ avaliacoes_csv' = _save_avaliacoes_db(DropIds(db, selected_ids))
    /\ confirm_delete' = FALSE
    /\ last' = Op("delete_av", TRUE, selected_ids, None, NoRow)
    /\ UNCHANGED <<kind, IS_STUDENT, avaliacoes_sql, sessoes, xlsx, urandom, regVars>>

\* button "Cancelar" of the confirmation
CancelarExclusao(db) ==
    /\ kind = "avaliacoes"
    /\ SheetOk(xlsx)
    /\ avaliacoes_csv.exists
    /\ confirm_delete
    /\ AlgumaVisivel(db)
    /\ confirm_delete' = FALSE
    /\ last' = Op("cancel_delete_av", TRUE, {}, None, NoRow)
    /\ UNCHANGED <<kind, IS_STUDENT, avaliacoes_sql, sessoes, xlsx, avaliacoes_csv, urandom, regVars>>

\* the handlers of page "Avaliação Física", run on the database of the run
PaginaAvaliacao ==
    \E db \in {avaliacao_db} :
        \/ \E f \in AvForms : SalvarAvaliacao(db, f)
        \/ \E f \in EditForms :
              \E nome_sel \in NomeSels(db) :
                 \E sel_id \in Ids(db) : SalvarAlteracoes(db, nome_sel, sel_id, f)
        \* the request with every visible row ticked; NextExclusao makes it
        \* with any rows ticked
        \/ \E nome_sel \in NomeSels(db) :
              ExcluirSelecionadas(db, nome_sel,
                  {AsTypeStr(db.rows[i]["ID"]) : i \in AvView(db, nome_sel)})
        \/ \E nome_sel \in NomeSels(db) :
              \E selected_ids \in SUBSET Ids(db) :
                 ConfirmarExclusao(db, nome_sel, selected_ids)
        \/ CancelarExclusao(db)

NextAv ==
    \/ Rerun
    \/ \E wb \in Workbooks : UploadExcel(wb)
    \/ Reinicializar
    \/ (kind = "avaliacoes" /\ SheetOk(xlsx) /\ avaliacoes_csv.exists /\ PaginaAvaliacao)

(***************************************************************************)
(* Workout log                                                             *)
(***************************************************************************)

RegistroCols == {"ID", "Data", "Nome", "Grupo muscular", "Exercicio", "Series",
                 "Repeticoes", "Carga (kg)", "Observacoes"}

\* the column renaming of _db_upsert_df / _sql_write_replace and its inverse
\* in _db_read_df
RenameToDb(c) ==
    CASE c = "ID" -> "id" [] c = "Data" -> "data" [] c = "Nome" -> "nome"
      [] c = "Grupo muscular" -> "grupo_muscular" [] c = "Exercicio" -> "exercicio"
      [] c = "Series" -> "series" [] c = "Repeticoes" -> "repeticoes"
      [] c = "Carga (kg)" -> "carga_kg" [] c = "Observacoes" -> "observacoes"
      [] OTHER -> c
RenameFromDb(c) ==
    CASE c = "id" -> "ID" [] c = "data" -> "Data" [] c = "nome" -> "Nome"
      [] c = "grupo_muscular" -> "Grupo muscular" [] c = "exercicio" -> "Exercicio"
      [] c = "series" -> "Series" [] c = "repeticoes" -> "Repeticoes"
      [] c = "carga_kg" -> "Carga (kg)" [] c = "observacoes" -> "Observacoes"
      [] OTHER -> c

\* df.rename(columns={...}) in the two directions
RenameColsToDb(df) ==
    Frame({RenameToDb(c) : c \in df.cols},
          [i \in DOMAIN df.rows |->
             [d \in {RenameToDb(c) : c \in df.cols} |->
                df.rows[i][CHOOSE c \in df.cols : RenameToDb(c) = d]]])
RenameColsFromDb(df) ==
    Frame({RenameFromDb(c) : c \in df.cols},
          [i \in DOMAIN df.rows |->
             [d \in {RenameFromDb(c) : c \in df.cols} |->
                df.rows[i][CHOOSE c \in df.cols : RenameFromDb(c) = d]]])

\* a table cell: None and NaN are stored as NULL
SqlCell(v) == IF IsNA(v) THEN None ELSE v

\* the table created by _db_init_tables
EmptyTable == Frame({RenameToDb(c) : c \in RegistroCols}, <<>>)

\* the table avaliacoes created by _db_init_tables: no statement of the
\* script inserts into it or selects from it
TabelaAvaliacoes == Frame({"id"}, <<>>)

\* to_sql(if_exists="replace"): the table becomes the frame, renamed only
\* when the frame has rows
_sql_write_replace(df) ==
    LET df2 == IF df.rows # <<>> THEN RenameColsToDb(df) ELSE df
    IN Frame(df2.cols, [i \in DOMAIN df2.rows |->
                          [c \in df2.cols |-> SqlCell(df2.rows[i][c])]])

\* SELECT * FROM treinos, in insertion order
_db_read_df(table) ==
    IF table.rows # <<>>
    THEN _to_date_col(RenameColsFromDb(table), "Data")
    ELSE table

\* _read_registro once the store in use was read into df0
LoadedRegistro(df0) ==
    LET df1 == IF df0.rows = <<>> THEN Frame(RegistroCols, <<>>) ELSE df0
    IN _ensure_id(_to_date_col(df1, "Data"))

_read_registro ==
    LoadedRegistro(IF db_enabled THEN _db_read_df(treinos_sql) ELSE _read_csv(registro_csv))

\* the frame _save_registro writes
SavedRegistro(df) == _ensure_id(_to_date_col(df, "Data"))

\* _save_registro(df): the primed store
_save_registro(df) ==
    IF db_enabled
    THEN /\ treinos_sql' = _sql_write_replace(SavedRegistro(df))
         /\ UNCHANGED registro_csv
    ELSE /\ registro_csv' = _write_csv(SavedRegistro(df))
         /\ UNCHANGED treinos_sql

\* pd.DataFrame(rows) for a non-empty list of dicts with the same keys
RowsFrame(rows) == Frame(DOMAIN rows[1], rows)

\* AppendedRegistro followed by a drop_duplicates on the content of the
\* entries: a new entry equal to a stored one is not stored again
AppendedRegistro_DropDuplicates(df_old, rows) ==
    LET proj == [i \in DOMAIN rows |->
                   [c \in df_old.cols |-> IF c \in DOMAIN rows[i] THEN rows[i][c]
                                          ELSE None]]
        Same(a, b) == \A c \in df_old.cols \ {"ID"} : CsvCell(a[c]) = CsvCell(b[c])
        fresh == SelectSeq(proj, LAMBDA r : \A i \in DOMAIN df_old.rows :
                                               ~Same(r, df_old.rows[i]))
    IN Concat(df_old, Frame(df_old.cols, fresh))

\* the frame _append_registro saves: df_new gets the columns of df_old it
\* lacks and is cut down to the columns of df_old
AppendedRegistro(df_old, rows) ==
    LET df_new0 == RowsFrame(rows)
        cols == df_new0.cols \cup df_old.cols \cup {"ID"}
        df_new == Frame(cols, [i \in DOMAIN rows |->
                                 [c \in cols |-> IF c \in df_new0.cols THEN rows[i][c]
                                                 ELSE None]])
        proj == Frame(df_old.cols, [i \in DOMAIN rows |->
                                      [c \in df_old.cols |-> df_new.rows[i][c]]])
    IN Concat(df_old, proj)

\* an item of the ficha
Item(data, nome, obs, carga) ==
    Row(<< <<"Data", Str(data)>>, <<"Nome", Str(nome)>>,
           <<"Grupo muscular", Str("PEITO")>>, <<"Exercicio", Str("Supino")>>,
           <<"Series", Num(3)>>, <<"Repeticoes", Num(10)>>,
           <<"Carga (kg)", carga>>, <<"Observacoes", Str(obs)>> >>)

\* the date of the date_input "Data do treino"
FichaDatas == {"2024-01-01"}

\* the values of the widgets of "Adicionar na ficha": nome_treino is one
\* of nomes
FichaItems(nomes) ==
    {Item(d, n, "ok", Num(0)) : d \in FichaDatas,
                              n \in (IF nomes = {} THEN {"(sem nomes)"} ELSE nomes)}

\* the values of the widgets of the form "Editar treino selecionado"
TreinoForms == {Item("2024-02-01", "Bia", "leve", Num(20)),
                Item("2024-01-01", "Alex", "", Num(0))}

\* reg_f: positions of the rows of reg shown for the name filter
RegView(reg, nomes, nome_sel) ==
    {i \in DOMAIN reg.rows :
        ("Nome" \in reg.cols /\ nomes # {}) => NomeStr(reg.rows[i]["Nome"]) = nome_sel}

ViewIds(reg, nomes, nome_sel) ==
    {AsTypeStr(reg.rows[i]["ID"]) : i \in RegView(reg, nomes, nome_sel)}

\* the page is drawn: the startup sequence did not stop the script
PaginaOk(k) == kind = k /\ SheetOk(xlsx) /\ avaliacoes_csv.exists

\* button "Adicionar na ficha"
AdicionarNaFicha(item) ==
    /\ ~IS_STUDENT
    /\ PaginaOk("treinos")
    /\ Len(ficha) < MaxFicha
    /\ ficha' = Append(ficha, item)
    /\ last' = Op("add_ficha", TRUE, {}, None, item)
    /\ UNCHANGED <<kind, IS_STUDENT, avaliacoes_sql, sessoes, avVars, db_enabled, registro_csv, treinos_sql,
                   confirm_del_treinos, edit_treino_id>>

\* "Limpar ficha" that also removes the log file
LimparFicha_ApagaRegistro ==
    /\ PaginaOk("treinos")
    /\ ficha # <<>>
    /\ ficha' = <<>>
    /\ registro_csv' = NoFile
    /\ last' = Op("clear_ficha", TRUE, {}, None, NoRow)
    /\ UNCHANGED <<kind, IS_STUDENT, avaliacoes_sql, sessoes, avVars, db_enabled, treinos_sql,
                   confirm_del_treinos, edit_treino_id>>
\* button "Limpar ficha"
LimparFicha ==
    /\ PaginaOk("treinos")
    /\ ficha # <<>>
    /\ ficha' = <<>>
    /\ last' = Op("clear_ficha", TRUE, {}, None, NoRow)
    /\ UNCHANGED <<kind, IS_STUDENT, avaliacoes_sql, sessoes, avVars, db_enabled, registro_csv, treinos_sql,
                   confirm_del_treinos, edit_treino_id>>

\* _append_registro(rows)
_append_registro(df_old, rows) == _save_registro(AppendedRegistro(df_old, rows))

\* button "Salvar no registro"
SalvarFicha(reg) ==
    /\ ~IS_STUDENT
    /\ PaginaOk("treinos")
    /\ ficha # <<>>
    /\ _append_registro(reg, ficha)
    /\ last' = Op("append_reg", TRUE, {}, None, NoRow)
    /\ UNCHANGED <<kind, IS_STUDENT, avaliacoes_sql, sessoes, avVars, db_enabled, ficha, confirm_del_treinos, edit_treino_id>>

\* "Salvar no registro" while the log stays within MaxReg entries
SalvarNoRegistro(reg) ==
    /\ Len(reg.rows) + Len(ficha) <= MaxReg
    /\ SalvarFicha(reg)

\* button "Excluir selecionados" with at least one row ticked
ExcluirSelecionados(reg, nomes, nome_sel, selected_ids) ==
    /\ ~IS_STUDENT
    /\ PaginaOk("treinos")
    /\ selected_ids # {}
    /\ selected_ids \subseteq ViewIds(reg, nomes, nome_sel)
    /\ confirm_del_treinos' = TRUE
    /\ last' = Op("ask_delete_reg", TRUE, selected_ids, None, NoRow)
    /\ UNCHANGED <<kind, IS_STUDENT, avaliacoes_sql, sessoes, avVars, db_enabled, registro_csv, treinos_sql, ficha,
                   edit_treino_id>>

\* button "Confirmar exclusao" with the rows selected_ids ticked in the editor
ConfirmarExclusaoTreinos(reg, nomes, nome_sel, selected_ids) ==
    /\ PaginaOk("treinos")
    /\ confirm_del_treinos
    /\ selected_ids \subseteq ViewIds(reg, nomes, nome_sel)
    /\ _save_registro(DropIds(reg, selected_ids))
    /\ confirm_del_treinos' = FALSE
    /\ last' = Op("delete_reg", TRUE, selected_ids, None, NoRow)
    /\ UNCHANGED <<kind, IS_STUDENT, avaliacoes_sql, sessoes, avVars, db_enabled, ficha, edit_treino_id>>

\* button "Cancelar" of the confirmation
CancelarExclusaoTreinos ==
    /\ PaginaOk("treinos")
    /\ confirm_del_treinos
    /\ confirm_del_treinos' = FALSE
    /\ last' = Op("cancel_delete_reg", TRUE, {}, None, NoRow)
    /\ UNCHANGED <<kind, IS_STUDENT, avaliacoes_sql, sessoes, avVars, db_enabled, registro_csv, treinos_sql, ficha,
                   edit_treino_id>>

\* button "Editar selecionado" with exactly one row ticked
EditarSelecionado(reg, nomes, nome_sel, id) ==
    /\ PaginaOk("treinos")
    /\ id \in ViewIds(reg, nomes, nome_sel)
    /\ edit_treino_id' = id
    /\ last' = Op("pick_edit_reg", TRUE, {}, id, NoRow)
    /\ UNCHANGED <<kind, IS_STUDENT, avaliacoes_sql, sessoes, avVars, db_enabled, registro_csv, treinos_sql, ficha,
                   confirm_del_treinos>>

\* reg_new.loc[mask, <col>] = <widget> for the eight columns of the form
TreinoEditado(reg, edit_id, f) ==
    Frame(reg.cols \cup DOMAIN f,
          [i \in DOMAIN reg.rows |->
             [c \in reg.cols \cup DOMAIN f |->
                IF i \in RowsWithId(reg, edit_id) /\ c \in DOMAIN f THEN f[c]
                ELSE IF c \in reg.cols THEN reg.rows[i][c] ELSE NaN]])

\* form submit "Salvar alteracoes" of "Editar treino selecionado"
SalvarTreinoEditado(reg, f) ==
    /\ ~IS_STUDENT
    /\ PaginaOk("treinos")
    /\ ~IsNone(edit_treino_id)
    /\ RowsWithId(reg, edit_treino_id) # {}
    /\ _save_registro(TreinoEditado(reg, edit_treino_id, f))
    /\ edit_treino_id' = None
    /\ last' = Op("edit_reg", TRUE, {}, edit_treino_id, f)
    /\ UNCHANGED <<kind, IS_STUDENT, avaliacoes_sql, sessoes, avVars, db_enabled, ficha, confirm_del_treinos>>

\* the page "Registro de treinos" is drawn while edit_treino_id names no row:
\* reg.loc[...].iloc[0] raises IndexError
EditarTreinoAusente(reg) ==
    /\ PaginaOk("treinos")
    /\ ~IsNone(edit_treino_id)
    /\ RowsWithId(reg, edit_treino_id) = {}
    /\ last' = Op("edit_reg", FALSE, {}, edit_treino_id, NoRow)
    /\ UNCHANGED <<kind, IS_STUDENT, avaliacoes_sql, sessoes, avVars, regVars>>

NextReg ==
    /\ PaginaOk("treinos")
    /\ \E reg \in {_read_registro} : \E nomes \in {Nomes(avaliacao_db)} :
          \/ \E item \in FichaItems(nomes) : AdicionarNaFicha(item)
          \/ LimparFicha
          \/ SalvarNoRegistro(reg)
          \* the request with every visible row ticked
          \/ \E nome_sel \in NomeSels(avaliacao_db) :
                ExcluirSelecionados(reg, nomes, nome_sel, ViewIds(reg, nomes, nome_sel))
          \/ \E nome_sel \in NomeSels(avaliacao_db) :
                \E selected_ids \in SUBSET Ids(reg) :
                   ConfirmarExclusaoTreinos(reg, nomes, nome_sel, selected_ids)
          \/ CancelarExclusaoTreinos
          \/ \E nome_sel \in NomeSels(avaliacao_db) :
                \E id \in Ids(reg) : EditarSelecionado(reg, nomes, nome_sel, id)
          \/ \E f \in TreinoForms : SalvarTreinoEditado(reg, f)
          \/ EditarTreinoAusente(reg)

InitAv ==
    /\ xlsx \in Workbooks
    /\ avaliacoes_csv = NoFile
    /\ urandom = 0
    /\ confirm_delete = FALSE

\* a registro_treinos.csv found in the working directory that was not written
\* by this version of the script: it has no column Observacoes and has a
\* column RPE
RegistroAntigo ==
    _write_csv(Frame((RegistroCols \ {"Observacoes"}) \cup {"RPE"},
                     << Row(<< <<"ID", Str("t0")>>, <<"Data", Str("2024-01-01")>>,
                               <<"Nome", Str("Alex")>>,
                               <<"Grupo muscular", Str("COSTAS")>>,
                               <<"Exercicio", Str("Remada")>>,
                               <<"Series", Num(3)>>, <<"Repeticoes", Num(10)>>,
                               <<"Carga (kg)", Num(20)>>, <<"RPE", Num(8)>> >>) >>))

InitReg ==
    /\ IS_STUDENT = FALSE
    /\ db_enabled \in BOOLEAN
    /\ registro_csv \in {NoFile, RegistroAntigo}
    /\ db_enabled => registro_csv = NoFile
    /\ treinos_sql = EmptyTable
    /\ avaliacoes_sql = TabelaAvaliacoes
    /\ ficha = <<>>
    /\ confirm_del_treinos = FALSE
    /\ edit_treino_id = None

\* a behaviour works on one record kind: the assessment handlers touch only
\* xlsx, avaliacoes_csv, urandom and confirm_delete, the workout handlers
\* only the workout variables
Init ==
    /\ kind \in {"avaliacoes", "treinos"}
    /\ InitAv
    /\ InitReg
    /\ kind = "avaliacoes" => ~db_enabled /\ registro_csv = NoFile
    /\ kind = "treinos" => xlsx = WorkbookA
    /\ sessoes = [s \in Sessoes |-> SessaoParada]
    /\ last = Op("start", TRUE, {}, None, NoRow)

Next == NextAv \/ NextReg

Spec == Init /\ [][Next]_vars

\* the script run with DATABASE_URL configured, on either record kind
InitDb ==
    /\ kind \in {"avaliacoes", "treinos"}
    /\ InitAv
    /\ InitReg
    /\ db_enabled
    /\ kind = "treinos" => xlsx = WorkbookA
    /\ sessoes = [s \in Sessoes |-> SessaoParada]
    /\ last = Op("start", TRUE, {}, None, NoRow)

SpecDb == InitDb /\ [][Next]_vars

(***************************************************************************)
(* One generated session saved to an empty workout log                     *)
(***************************************************************************)

MaxSessao == 3    \* value of the slider "Exercícios por grupo"

\* _get_exs_for_group(g): the exercises the workbook lists for the group,
\* in sheet order (an exercise may be listed twice)
Exercicios == <<"Supino", "Crucifixo", "Supino", "Flexao">>

\* the item "Gerar ficha agora" appends for exercise ex
ItemGerado(nome_sel, ex) ==
    [Item("2024-01-01", nome_sel, "", Num(0)) EXCEPT !["Exercicio"] = Str(ex)]

\* button "Gerar ficha agora" with n_ex_por_grupo exercises of one group
GerarFicha(nome_sel, n_ex_por_grupo) ==
    /\ ~IS_STUDENT
    /\ PaginaOk("treinos")
    /\ ficha' = [k \in 1..Min({n_ex_por_grupo, Len(Exercicios)}) |->
                    ItemGerado(nome_sel, Exercicios[k])]
    /\ last' = Op("gerar_ficha", TRUE, {}, None, NoRow)
    /\ UNCHANGED <<kind, IS_STUDENT, avaliacoes_sql, sessoes, avVars, db_enabled, registro_csv, treinos_sql,
                   confirm_del_treinos, edit_treino_id>>

\* "Salvar no registro" pressed while the log is empty
SalvarSessao(reg) ==
    /\ reg.rows = <<>>
    /\ SalvarFicha(reg)

NextSessao ==
    \/ Rerun
    \/ /\ PaginaOk("treinos")
       /\ \E reg \in {_read_registro} : \E nomes \in {Nomes(avaliacao_db)} :
             \/ \E nome_sel \in NomeSels(avaliacao_db) :
                   \E n \in 1..MaxSessao : GerarFicha(nome_sel, n)
             \/ SalvarSessao(reg)
             \* the request with every visible row ticked
             \/ \E nome_sel \in NomeSels(avaliacao_db) :
                   ExcluirSelecionados(reg, nomes, nome_sel, ViewIds(reg, nomes, nome_sel))
             \/ \E nome_sel \in NomeSels(avaliacao_db) :
                   \E selected_ids \in SUBSET Ids(reg) :
                      ConfirmarExclusaoTreinos(reg, nomes, nome_sel, selected_ids)
             \/ CancelarExclusaoTreinos

InitSessao ==
    /\ Init
    /\ kind = "treinos"
    /\ registro_csv = NoFile

SpecSessao == InitSessao /\ [][NextSessao]_vars

(***************************************************************************)
(* The deletion dialogs of the two pages, the request made with any rows   *)
(* ticked                                                                  *)
(***************************************************************************)

NextExclusao ==
    \/ Rerun
    \/ /\ kind = "avaliacoes" /\ SheetOk(xlsx) /\ avaliacoes_csv.exists
       /\ \E db \in {avaliacao_db} :
             \/ \E f \in AvForms : SalvarAvaliacao(db, f)
             \/ \E nome_sel \in NomeSels(db) :
                   \E selected_ids \in SUBSET Ids(db) :
                      \/ ExcluirSelecionadas(db, nome_sel, selected_ids)
                      \/ ConfirmarExclusao(db, nome_sel, selected_ids)
             \/ CancelarExclusao(db)
    \/ /\ PaginaOk("treinos")
       /\ \E reg \in {_read_registro} : \E nomes \in {Nomes(avaliacao_db)} :
             \/ \E item \in FichaItems(nomes) : AdicionarNaFicha(item)
             \/ SalvarNoRegistro(reg)
             \/ \E nome_sel \in NomeSels(avaliacao_db) :
                   \E selected_ids \in SUBSET Ids(reg) :
                      \/ ExcluirSelecionados(reg, nomes, nome_sel, selected_ids)
                      \/ ConfirmarExclusaoTreinos(reg, nomes, nome_sel, selected_ids)
             \/ CancelarExclusaoTreinos

SpecExclusao == Init /\ [][NextExclusao]_vars

(***************************************************************************)
(* Read-only mode: the toggle "Modo aluno (somente leitura)" is switched   *)
(* on and off during the session                                           *)
(***************************************************************************)

\* the sidebar toggle is switched and the script reruns with the new value
ModoAluno ==
    /\ IS_STUDENT' = ~IS_STUDENT
    /\ avaliacoes_csv' = IF SheetOk(xlsx)
                         THEN _load_or_init_avaliacoes_db(xlsx, avaliacoes_csv).file
                         ELSE avaliacoes_csv
    /\ last' = Op("modo_aluno", SheetOk(xlsx), {}, None, NoRow)
    /\ UNCHANGED <<kind, avaliacoes_sql, sessoes, xlsx, urandom, confirm_delete, regVars>>

NextAluno == Next \/ ModoAluno

SpecAluno == Init /\ [][NextAluno]_vars
(***************************************************************************)
(* The page "Ficha de treino": the buffer st.session_state["ficha"] and    *)
(* the workout log                                                         *)
(***************************************************************************)

NextFicha ==
    \/ Rerun
    \/ /\ PaginaOk("treinos")
       /\ \E reg \in {_read_registro} : \E nomes \in {Nomes(avaliacao_db)} :
             \/ \E item \in FichaItems(nomes) : AdicionarNaFicha(item)
             \/ \E nome_sel \in NomeSels(avaliacao_db) :
                   \E n \in 1..MaxSessao : GerarFicha(nome_sel, n)
             \/ LimparFicha
             \/ SalvarNoRegistro(reg)

InitFicha ==
    /\ Init
    /\ kind = "treinos"

SpecFicha == InitFicha /\ [][NextFicha]_vars

(***************************************************************************)
(* The metric functions applied to values of their argument types          *)
(***************************************************************************)

\* arguments of type float | None: absent, NaN, zero, negative, usual values
Pesos == {None, NaN, Num(0), Num(-5), Num(45), Num(60), <<145, 2>>, Num(80),
          Num(120), Num(200)}
Alturas == {None, NaN, Num(0), Num(-1), <<-8, 5>>, <<3, 2>>, <<8, 5>>, <<9, 5>>,
            Num(2)}
Imcs == {None, NaN, Num(0), Num(-3), Num(10), <<1849, 100>>, <<37, 2>>, Num(22),
         <<2499, 100>>, Num(25), Num(27), <<2999, 100>>, Num(30), Num(32),
         <<3499, 100>>, Num(35), Num(37), <<3999, 100>>, Num(40), Num(45),
         <<2000, 81>>}

\* imc = _calc_imc(peso, altura)
CalcImc(peso, altura) ==
    /\ last' = Op("_calc_imc", TRUE, {}, None,
                  [peso |-> peso, altura |-> altura, imc |-> _calc_imc(peso, altura)])
    /\ UNCHANGED <<kind, IS_STUDENT, avVars, regVars, avaliacoes_sql, sessoes>>

\* imc_cls = _classificacao_imc(imc)
ClassificarImc(imc) ==
    /\ last' = Op("_classificacao_imc", TRUE, {}, None,
                  [imc |-> imc, imc_cls |-> _classificacao_imc(imc)])
    /\ UNCHANGED <<kind, IS_STUDENT, avVars, regVars, avaliacoes_sql, sessoes>>

NextMetricas ==
    \/ \E peso \in Pesos : \E altura \in Alturas : CalcImc(peso, altura)
    \/ \E imc \in Imcs : ClassificarImc(imc)

InitMetricas ==
    /\ Init
    /\ kind = "avaliacoes"
    /\ xlsx = WorkbookA

SpecMetricas == InitMetricas /\ [][NextMetricas]_vars

(***************************************************************************)
(* The body-composition formulas: a call is drawn with its arguments and   *)
(* the function is applied to them                                         *)
(***************************************************************************)

\* arguments of _calc_dc_jp3: the sex as text or missing, the age and the
\* five skinfolds as float | None
Sexos == {Str("Homem"), Str("Mulher"), Str("Outro"), None}
Idades == {None, NaN, Num(30), Num(50)}
Dobras == {None, NaN, Num(10), Num(20)}

\* the calls waiting to be made: last.op names the function, last.row holds
\* the arguments and the place of the result
Chamada(f, args) == Op(f, FALSE, {}, None, args)
ChamadasDc ==
    {Chamada("_calc_dc_jp3",
             [sexo |-> sexo, idade |-> idade, d_pe |-> d_pe, d_ab |-> d_ab,
              d_cx |-> d_cx, d_si |-> d_si, d_tr |-> d_tr, dc |-> None]) :
        sexo \in Sexos, idade \in Idades, d_pe \in Dobras, d_ab \in Dobras,
        d_cx \in Dobras, d_si \in Dobras, d_tr \in Dobras}

\* dc = _calc_dc_jp3(sexo, idade, d_pe, d_ab, d_cx, d_si, d_tr)
CalcDc ==
    /\ last.op = "_calc_dc_jp3" /\ ~last.ok
    /\ LET r == last.row
       IN last' = [last EXCEPT !.ok = TRUE,
                     !.row.dc = _calc_dc_jp3(r.sexo, r.idade, r.d_pe, r.d_ab,
                                             r.d_cx, r.d_si, r.d_tr)]
    /\ UNCHANGED <<kind, IS_STUDENT, avVars, regVars, avaliacoes_sql, sessoes>>

\* argument of _calc_gordura_siri: float | None
Densidades == {None, NaN, Num(0), Num(-1), <<-21, 20>>, <<1, 2>>, <<99, 100>>,
               Num(1), <<21, 20>>, <<11, 10>>, <<107, 100>>, Num(2)}
ChamadasGordura ==
    {Chamada("_calc_gordura_siri", [dc |-> dc, gordura |-> None]) :
        dc \in Densidades}

\* gordura = _calc_gordura_siri(dc)
CalcGordura ==
    /\ last.op = "_calc_gordura_siri" /\ ~last.ok
    /\ last' = [last EXCEPT !.ok = TRUE,
                  !.row.gordura = _calc_gordura_siri(last.row.dc)]
    /\ UNCHANGED <<kind, IS_STUDENT, avVars, regVars, avaliacoes_sql, sessoes>>
\* argument rcq of _classificacao_rcq: float | None
Rcqs == {None, NaN, Num(0), <<-1, 2>>, <<79, 100>>, <<4, 5>>, <<21, 25>>,
         <<17, 20>>, <<89, 100>>, <<9, 10>>, <<99, 100>>, Num(1), <<6, 5>>}
ChamadasRcq ==
    {Chamada("_classificacao_rcq", [sexo |-> sexo, rcq |-> rcq, risco |-> None]) :
        sexo \in Sexos, rcq \in Rcqs}

\* out["RISCO"] = _classificacao_rcq(sexo, rcq)
ClassificarRcq ==
    /\ last.op = "_classificacao_rcq" /\ ~last.ok
    /\ last' = [last EXCEPT !.ok = TRUE,
                  !.row.risco = _classificacao_rcq(last.row.sexo, last.row.rcq)]
    /\ UNCHANGED <<kind, IS_STUDENT, avVars, regVars, avaliacoes_sql, sessoes>>
\* the body measurements _recompute_derived normalises, and a row with a
\* usual value for each of them
Medidas == {"Idade", "Peso", "Altura", "CC", "CQ",
            "D PE", "D AB", "D CX", "D SI", "D TR"}
Medidos ==
    Row(<< <<"Idade", Num(30)>>, <<"Peso", Num(80)>>, <<"Altura", <<9, 5>> >>,
           <<"CC", Num(90)>>, <<"CQ", Num(100)>>,
           <<"D PE", Num(10)>>, <<"D AB", Num(15)>>, <<"D CX", Num(12)>>,
           <<"D SI", Num(11)>>, <<"D TR", Num(13)>> >>)
\* a measurement that was not provided: zero, None, NaN, text that is no number
NaoInformados == {Num(0), None, NaN, Str("abc")}
BaseCols == Medidas \cup {"Sexo", "IMC", "Classificação", "DC", "G", "RCQ", "RISCO"}
\* rows with the measurements of a set replaced by a value not provided
ChamadasRecompute ==
    {Chamada("_recompute_derived",
             [row |-> [c \in Medidas \cup {"Sexo"} |->
                          IF c = "Sexo" THEN sexo
                          ELSE IF c \in faltam THEN v ELSE Medidos[c]],
              out |-> NoRow]) :
        sexo \in {Str("Homem"), Str("Mulher")}, faltam \in SUBSET Medidas,
        v \in NaoInformados}

\* row = _recompute_derived(row, base_cols)
Recompute ==
    /\ last.op = "_recompute_derived" /\ ~last.ok
    /\ last' = [last EXCEPT !.ok = TRUE,
                  !.row.out = _recompute_derived(last.row.row, BaseCols)]
    /\ UNCHANGED <<kind, IS_STUDENT, avVars, regVars, avaliacoes_sql, sessoes>>
NextFormulas ==
    \/ CalcDc
    \/ CalcGordura
    \/ ClassificarRcq
    \/ Recompute

InitFormulas ==
    /\ kind = "avaliacoes"
    /\ xlsx = WorkbookA
    /\ InitAv
    /\ InitReg
    /\ ~db_enabled
    /\ registro_csv = NoFile
    /\ sessoes = [s \in Sessoes |-> SessaoParada]
    /\ last \in ChamadasDc \cup ChamadasGordura \cup ChamadasRcq
                  \cup ChamadasRecompute

SpecFormulas == InitFormulas /\ [][NextFormulas]_vars

(***************************************************************************)
(* Loads of a persisted avaliacoes_db.csv that holds malformed cells       *)
(***************************************************************************)

\* cells found in a persisted row: well-formed, malformed and empty ones
DataCells == {Str("2024-01-01"), Str("31/31/2024"), None}
PesoCells == {Num(80), Str("80kg"), None}
AlturaCells == {<<9, 5>>, Str("abc")}

\* the rows a persisted file may hold
PersistedRows ==
    {Row(<< <<"ID", Str("a1")>>, <<"Nome", Str("Alex")>>, <<"Sexo", Str("Homem")>>,
            <<"Data", d>>, <<"Peso", p>>, <<"Altura", a>> >>) :
        d \in DataCells, p \in PesoCells, a \in AlturaCells}

\* the sequences of 1..n elements of S
RECURSIVE SeqsUpTo(_, _)
SeqsUpTo(S, n) ==
    IF n = 0 THEN {}
    ELSE {<<x>> : x \in S}
         \cup {Append(q, x) : q \in SeqsUpTo(S, n - 1), x \in S}

\* an avaliacoes_db.csv written by an earlier import of a sheet with such
\* cells, or edited outside the app
InitCarga ==
    /\ kind = "avaliacoes"
    /\ xlsx = WorkbookA
    /\ urandom = 0
    /\ confirm_delete = FALSE
    /\ InitReg
    /\ ~db_enabled
    /\ registro_csv = NoFile
    /\ sessoes = [s \in Sessoes |-> SessaoParada]
    /\ last = Op("start", TRUE, {}, None, NoRow)
    /\ \E rows \in SeqsUpTo(PersistedRows, MaxAv) :
          avaliacoes_csv = [exists |-> TRUE, cols |-> DOMAIN rows[1], rows |-> rows]

\* the script runs and loads the file
SpecCarga == InitCarga /\ [][Rerun]_vars

(***************************************************************************)
(* Two browser sessions: the script runs interleave between the load and   *)
(* the save of a handler; nothing in the script locks the stores           *)
(***************************************************************************)

\* the dataframe the handler of session s modifies and saves
CopiaDaSessao_Relida(s) ==
    IF sessoes[s].pc = "add_av" THEN avaliacao_db ELSE _read_registro

\* the dataframe the handler of session s modifies and saves: the one its
\* script run loaded
CopiaDaSessao(s) == sessoes[s].df

\* the script run of session s that will handle "Salvar avaliação" loads
\* the assessments
IniciarAdd(s) ==
    /\ kind = "avaliacoes"
    /\ sessoes[s].pc = "idle"
    /\ sessoes' = [sessoes EXCEPT ![s] = [pc |-> "add_av", df |-> avaliacao_db]]
    /\ last' = Op("load_av", TRUE, {}, None, NoRow)
    /\ UNCHANGED <<kind, IS_STUDENT, avVars, regVars, avaliacoes_sql>>

\* ... and its handler concatenates the new row and saves
ConcluirAdd(s, f) ==
    /\ sessoes[s].pc = "add_av"
    /\ urandom < MaxSessoes
    /\ LET db == CopiaDaSessao(s)
           row == NovaAvaliacao(f, db.cols, urandom)
       IN /\ avaliacoes_csv' = _save_avaliacoes_db(
                 _ensure_id(Concat(db, Frame(DOMAIN row, <<row>>))))
          /\ last' = Op("add_av", TRUE, {}, row["ID"], f)
    /\ urandom' = urandom + 1
    /\ sessoes' = [sessoes EXCEPT ![s] = SessaoParada]
    /\ UNCHANGED <<kind, IS_STUDENT, xlsx, confirm_delete, regVars, avaliacoes_sql>>

\* _append_registro in session s reads the log (df_old)
IniciarAppend(s) ==
    /\ kind = "treinos"
    /\ sessoes[s].pc = "idle"
    /\ sessoes' = [sessoes EXCEPT ![s] = [pc |-> "append_reg", df |-> _read_registro]]
    /\ last' = Op("load_reg", TRUE, {}, None, NoRow)
    /\ UNCHANGED <<kind, IS_STUDENT, avVars, regVars, avaliacoes_sql>>

\* ... and saves df_old with the rows of the session's ficha
ConcluirAppend(s, rows) ==
    /\ sessoes[s].pc = "append_reg"
    /\ Len(CopiaDaSessao(s).rows) + Len(rows) <= MaxReg
    /\ _append_registro(CopiaDaSessao(s), rows)
    /\ sessoes' = [sessoes EXCEPT ![s] = SessaoParada]
    /\ last' = Op("append_reg", TRUE, {}, None, rows[1])
    /\ UNCHANGED <<kind, IS_STUDENT, avVars, db_enabled, ficha, confirm_del_treinos,
                   edit_treino_id, avaliacoes_sql>>

\* the rows of the ficha of a session
FichasDasSessoes == {<<item>> : item \in FichaItems({"Alex", "Bia"})}

NextSessoes ==
    \E s \in Sessoes :
        \/ IniciarAdd(s)
        \/ \E f \in {FormHomem, FormMulher} : ConcluirAdd(s, f)
        \/ IniciarAppend(s)
        \/ \E rows \in FichasDasSessoes : ConcluirAppend(s, rows)

\* the assessments were imported before the sessions start
InitSessoes ==
    /\ kind \in {"avaliacoes", "treinos"}
    /\ xlsx = WorkbookA
    /\ avaliacoes_csv = _write_csv(_ensure_id(_to_date_col(WorkbookA, "Data")))
    /\ urandom = 0
    /\ confirm_delete = FALSE
    /\ InitReg
    /\ sessoes = [s \in Sessoes |-> SessaoParada]
    /\ last = Op("start", TRUE, {}, None, NoRow)

SpecSessoes == InitSessoes /\ [][NextSessoes]_vars

(***************************************************************************)
(* The same operations applied to the CSV file and to the table treinos    *)
(***************************************************************************)

\* _read_registro with the backend disabled / enabled
ReadCsv == LoadedRegistro(_read_csv(registro_csv))
ReadSql == LoadedRegistro(_db_read_df(treinos_sql))

\* _save_registro(df) with the backend disabled / enabled
SaveCsv(df) == _write_csv(SavedRegistro(df))
SaveSql(df) == _sql_write_replace(SavedRegistro(df))

\* the rows handed to _append_registro
SessaoRows ==
    {<<item>> : item \in FichaItems({"Alex", "Bia"})
                         \cup {ItemGerado(n, "Supino") : n \in {"Alex", "Bia"}}}

\* _append_registro(rows) on each store
AmbosAppend(rows) ==
    /\ Len(ReadCsv.rows) + Len(rows) <= MaxReg
    /\ registro_csv' = SaveCsv(AppendedRegistro(ReadCsv, rows))
    /\ treinos_sql' = SaveSql(AppendedRegistro(ReadSql, rows))
    /\ last' = Op("append_reg", TRUE, {}, None, rows[1])
    /\ UNCHANGED <<kind, IS_STUDENT, avaliacoes_sql, sessoes, avVars, db_enabled, ficha, confirm_del_treinos, edit_treino_id>>

\* the delete handler's _save_registro on each store
AmbosDelete(selected_ids) ==
    /\ selected_ids # {}
    /\ selected_ids \subseteq Ids(ReadCsv) \cup Ids(ReadSql)
    /\ registro_csv' = SaveCsv(DropIds(ReadCsv, selected_ids))
    /\ treinos_sql' = SaveSql(DropIds(ReadSql, selected_ids))
    /\ last' = Op("delete_reg", TRUE, selected_ids, None, NoRow)
    /\ UNCHANGED <<kind, IS_STUDENT, avaliacoes_sql, sessoes, avVars, db_enabled, ficha, confirm_del_treinos, edit_treino_id>>

\* the edit handler's _save_registro on each store
AmbosEdit(edit_id, f) ==
    /\ edit_id \in Ids(ReadCsv) \cup Ids(ReadSql)
    /\ registro_csv' = SaveCsv(TreinoEditado(ReadCsv, edit_id, f))
    /\ treinos_sql' = SaveSql(TreinoEditado(ReadSql, edit_id, f))
    /\ last' = Op("edit_reg", TRUE, {}, edit_id, f)
    /\ UNCHANGED <<kind, IS_STUDENT, avaliacoes_sql, sessoes, avVars, db_enabled, ficha, confirm_del_treinos, edit_treino_id>>

NextBackends ==
    \/ \E rows \in SessaoRows : AmbosAppend(rows)
    \/ \E selected_ids \in SUBSET (Ids(ReadCsv) \cup Ids(ReadSql)) : AmbosDelete(selected_ids)
    \/ \E edit_id \in Ids(ReadCsv) \cup Ids(ReadSql) :
          \E f \in TreinoForms : AmbosEdit(edit_id, f)

\* both stores empty
InitBackends ==
    /\ Init
    /\ kind = "treinos"
    /\ ~db_enabled
    /\ registro_csv = NoFile

SpecBackends == InitBackends /\ [][NextBackends]_vars

(***************************************************************************)
(* The exercise catalog: sheet DADOS_TREINOS in its two shapes             *)
(***************************************************************************)

MaxCatalogo == 3

\* str(x).strip().lower().replace("_", " "), combining marks removed after
\* NFKD, whitespace collapsed: the value for each text of the model
_norm_col(x) ==
    CASE x \in {"PEITO", "Peito"} -> "peito"
      [] x \in {"BÍCEPS", "Biceps"} -> "biceps"
      [] x = "COSTAS" -> "costas"
      [] x = "Grupo" -> "grupo"
      [] x = "Exercício" -> "exercicio"
      [] OTHER -> x

\* the same function, defined again inside _get_exs_for_group
_norm(s) == _norm_col(s)

\* the group labels and the exercise cells of a sheet (NaN: an empty cell)
CatLabels == {"PEITO", "Peito", "Biceps"}
CatExs == {Str("Supino"), Str("Rosca"), NaN}
\* the groups the templates of "Gerar treino pronto" ask for
Pedidos == {"PEITO", "BÍCEPS", "COSTAS"}

\* the catalog data: (group label, exercise cell) pairs in sheet order
Dados == SeqsUpTo(CatLabels \X CatExs, MaxCatalogo)

\* .unique(): the values in the order of their first occurrence
RECURSIVE Unique(_)
Unique(s) ==
    IF s = <<>> THEN <<>>
    ELSE LET u == Unique(SubSeq(s, 1, Len(s) - 1))
             x == s[Len(s)]
         IN IF \E i \in DOMAIN u : u[i] = x THEN u ELSE Append(u, x)

\* shape (A): columns Grupo and Exercício, one pair per row
PlanilhaLonga(dados) ==
    [columns |-> <<"Grupo", "Exercício">>,
     rows |-> [i \in DOMAIN dados |->
                  [c \in {"Grupo", "Exercício"} |->
                      IF c = "Grupo" THEN Str(dados[i][1]) ELSE dados[i][2]]]]

\* the exercise cells of the pairs labelled l
CellsOf(dados, l) ==
    LET IsL(p) == p[1] = l
        ps == SelectSeq(dados, IsL)
    IN [i \in DOMAIN ps |-> ps[i][2]]

\* shape (B): one column per group label, the cells below it its exercises
PlanilhaWide(dados) ==
    LET labels == Unique([i \in DOMAIN dados |-> dados[i][1]])
        height == CHOOSE n \in 0..Len(dados) :
                     /\ \A k \in DOMAIN labels : Len(CellsOf(dados, labels[k])) <= n
                     /\ \E k \in DOMAIN labels : Len(CellsOf(dados, labels[k])) = n
    IN [columns |-> labels,
        rows |-> [i \in 1..height |->
                     [c \in {labels[k] : k \in DOMAIN labels} |->
                         IF i <= Len(CellsOf(dados, c)) THEN CellsOf(dados, c)[i]
                         ELSE NaN]]]

Planilha(dados, formato) ==
    IF formato = "long" THEN PlanilhaLonga(dados) ELSE PlanilhaWide(dados)

\* the last column whose normalised name is in names, None without one
DetectCol(dados_treinos, names) ==
    LET Is(c) == _norm_col(c) \in names
        cs == SelectSeq(dados_treinos.columns, Is)
    IN IF cs = <<>> THEN None ELSE Str(cs[Len(cs)])

\* .dropna().astype(str).map(strip) and "[x for x in exs0 if x]"
CleanExs(cells) ==
    LET Keep(x) == ~IsNA(x) /\ Strip(x[1]) # ""
        kept == SelectSeq(cells, Keep)
    IN [i \in DOMAIN kept |-> Str(Strip(kept[i][1]))]

_get_exs_for_group(dados_treinos, group_name) ==
    LET grp_col == DetectCol(dados_treinos, {"grupo", "grupo muscular", "grupomuscular"})
        ex_col == DetectCol(dados_treinos, {"exercicio", "exercicios", "exercicio(s)"})
        is_long_format == ~IsNone(grp_col) /\ ~IsNone(ex_col)
        target == _norm(group_name)
    IN IF is_long_format
       THEN LET NotNa(x) == ~IsNA(x)
                groups == [i \in DOMAIN dados_treinos.rows |->
                              dados_treinos.rows[i][grp_col[1]]]
                poss == Unique(SelectSeq(groups, NotNa))
                IsTarget(g) == _norm(g[1]) = target
                found == SelectSeq(poss, IsTarget)
            IN IF found = <<>> THEN <<>>
               ELSE LET match == found[1]
                        OfMatch(r) == r[grp_col[1]] = match
                        sel == SelectSeq(dados_treinos.rows, OfMatch)
                    IN CleanExs([i \in DOMAIN sel |-> sel[i][ex_col[1]]])
       ELSE LET IsTargetCol(c) == _norm(c) = target
                found == SelectSeq(dados_treinos.columns, IsTargetCol)
            IN IF found = <<>> THEN <<>>
               ELSE LET match_col == found[1]
                    IN CleanExs([i \in DOMAIN dados_treinos.rows |->
                                    dados_treinos.rows[i][match_col]])

\* the sheets and the lookups made on them
ChamadasCatalogo ==
    {Op("_get_exs_for_group", FALSE, {}, None,
        [dados |-> dados, formato |-> formato, group_name |-> g, exs_g |-> <<>>]) :
        dados \in Dados, formato \in {"long", "wide"}, g \in Pedidos}

\* exs_g = _get_exs_for_group(g)
GetExsForGroup ==
    /\ last.op = "_get_exs_for_group" /\ ~last.ok
    /\ last' = [last EXCEPT !.ok = TRUE,
                  !.row.exs_g = _get_exs_for_group(
                                    Planilha(last.row.dados, last.row.formato),
                                    last.row.group_name)]
    /\ UNCHANGED <<kind, IS_STUDENT, avVars, regVars, avaliacoes_sql, sessoes>>

InitCatalogo ==
    /\ kind = "treinos"
    /\ xlsx = WorkbookA
    /\ InitAv
    /\ InitReg
    /\ ~db_enabled
    /\ registro_csv = NoFile
    /\ sessoes = [s \in Sessoes |-> SessaoParada]
    /\ last \in ChamadasCatalogo

SpecCatalogo == InitCatalogo /\ [][GetExsForGroup]_vars

(***************************************************************************)
(* Properties                                                              *)
(***************************************************************************)

DerivedCols == {"IMC", "Classificação", "Classificação IMC", "DC", "G", "% Gordura",
                "MM", "% Massa Magra", "RCQ", "RISCO"}

\* a raw measurement of a stored record as the formulas take it
RawOf(r, c) == _to_float_or_none(Get(r, c), TRUE)

DensityOf(r) ==
    _calc_dc_jp3(Get(r, "Sexo"), RawOf(r, "Idade"), RawOf(r, "D PE"), RawOf(r, "D AB"),
                 RawOf(r, "D CX"), RawOf(r, "D SI"), RawOf(r, "D TR"))

\* the value of derived field c that the formulas give for the raw fields of r
FormulaOf(r, c) ==
    LET imc == _calc_imc(RawOf(r, "Peso"), RawOf(r, "Altura"))
        gordura == _calc_gordura_siri(DensityOf(r))
        rcq == _calc_rcq(RawOf(r, "CC"), RawOf(r, "CQ"))
    IN CASE c = "IMC" -> imc
         [] c \in {"Classificação", "Classificação IMC"} -> _classificacao_imc(imc)
         [] c = "DC" -> DensityOf(r)
         [] c \in {"G", "% Gordura"} -> gordura
         [] c \in {"MM", "% Massa Magra"} ->
                IF IsNone(gordura) THEN None ELSE MassaMagra(gordura)
         [] c = "RCQ" -> rcq
         [] c = "RISCO" -> _classificacao_rcq(Get(r, "Sexo"), rcq)

\* the records of avaliacoes_db.csv that the add form created
CreatedRows == {i \in DOMAIN avaliacoes_csv.rows :
                   "ID" \in avaliacoes_csv.cols /\ avaliacoes_csv.rows[i]["ID"][1] = "r"}

\* C1: every derived field of a record created (and possibly edited) in the
\* app equals its formula applied to the record's current raw fields, and is
\* absent when the formula gives no value
C1_DerivedFollowRaw ==
    \A i \in CreatedRows : \A c \in DerivedCols \cap avaliacoes_csv.cols :
        avaliacoes_csv.rows[i][c] = CsvCell(FormulaOf(avaliacoes_csv.rows[i], c))

\* the persisted workout log under the column names of the script
Registro ==
    IF db_enabled THEN RenameColsFromDb(treinos_sql)
    ELSE Frame(registro_csv.cols, registro_csv.rows)

\* a cell as the store in use keeps it
StoreCell(v) == IF db_enabled THEN SqlCell(v) ELSE CsvCell(v)

IdSeq(rows) == [i \in DOMAIN rows |-> rows[i]["ID"]]

\* the identifiers in the persisted collection of the behaviour's kind
PersistedIds ==
    IF kind = "avaliacoes"
    THEN {avaliacoes_csv.rows[i]["ID"] : i \in DOMAIN avaliacoes_csv.rows}
    ELSE {Registro.rows[i]["ID"] : i \in DOMAIN Registro.rows}

\* the rows whose identifier is not in S, in order
RECURSIVE Remaining(_, _)
Remaining(rows, S) ==
    IF rows = <<>> THEN <<>>
    ELSE (IF Head(rows)["ID"] \in S THEN <<>> ELSE <<Head(rows)>>)
         \o Remaining(Tail(rows), S)

\* C2: no two persisted workout entries have the same ID
C2_WorkoutIdsDistinct ==
    \A i, j \in DOMAIN Registro.rows :
        i # j => Registro.rows[i]["ID"] # Registro.rows[j]["ID"]

\* C3: deleted is terminal; in particular the operation that follows a
\* deletion does not make a record with a deleted identifier present again
C3_DeletedStaysAbsent ==
    [][(last.op \in {"delete_av", "delete_reg"}) =>
          \A id \in last.ids : id \notin PersistedIds']_vars

\* C4: a deletion of the identifiers S persists exactly the records whose
\* identifier is not in S, in their order and with their fields, raises no
\* error, and changes nothing when no record has an identifier of S
C4_DeleteExact ==
    [][/\ (last'.op = "delete_av") =>
            /\ last'.ok
            /\ avaliacoes_csv'.exists
            /\ avaliacoes_csv'.cols = avaliacoes_csv.cols
            /\ avaliacoes_csv'.rows = Remaining(avaliacoes_csv.rows, last'.ids)
            /\ (last'.ids \cap PersistedIds = {}) => avaliacoes_csv' = avaliacoes_csv
       /\ (last'.op = "delete_reg") =>
            /\ last'.ok
            /\ Registro'.cols = Registro.cols
            /\ Registro'.rows = Remaining(Registro.rows, last'.ids)
            /\ (last'.ids \cap PersistedIds = {}) => Registro' = Registro]_vars

\* a deletion that removed a record and left another one
C4_Witness ==
    /\ last.op = "delete_av"
    /\ last.ids # {}
    /\ avaliacoes_csv.rows # <<>>

RawCols == {"Nome", "Data", "Sexo", "Idade", "Peso", "Altura", "CC", "CQ", "CA",
            "D PE", "D AB", "D CX", "D SI", "D TR", "Observacoes"}

\* the raw field c as the assessment form f gives it
FormValue(f, c) ==
    IF c = "Nome" THEN Str(Strip(f[c][1]))
    ELSE IF c \in {"Data", "Sexo", "Observacoes"} THEN f[c]
    ELSE _to_float_or_none(f[c], TRUE)

\* C5: an update of a missing identifier fails and leaves the store unchanged;
\* an update of an existing identifier changes exactly one record: its raw
\* fields are the new ones, its derived fields follow them, its identifier is
\* kept, and every other record keeps its fields
C5_UpdateExact ==
    [][/\ (last'.op = "edit_av" /\ last'.ok) =>
            LET old == avaliacoes_csv.rows
                new == avaliacoes_csv'.rows
                hit == {i \in DOMAIN old : old[i]["ID"] = last'.id}
            IN /\ Cardinality(hit) = 1
               /\ Len(new) = Len(old)
               /\ \A i \in DOMAIN old \ hit : new[i] = old[i]
               /\ \A i \in hit :
                     /\ new[i]["ID"] = last'.id
                     /\ \A c \in RawCols \cap avaliacoes_csv.cols :
                           new[i][c] = CsvCell(FormValue(last'.row, c))
                     /\ \A c \in DerivedCols \cap avaliacoes_csv.cols :
                           new[i][c] = CsvCell(FormulaOf(new[i], c))
       /\ (last'.op = "edit_reg" /\ last'.ok) =>
            LET old == Registro.rows
                new == Registro'.rows
                hit == {i \in DOMAIN old : old[i]["ID"] = last'.id}
            IN /\ Cardinality(hit) = 1
               /\ Len(new) = Len(old)
               /\ \A i \in DOMAIN old \ hit :
                     \A c \in Registro.cols : new[i][c] = old[i][c]
               /\ \A i \in hit :
                     /\ new[i]["ID"] = last'.id
                     /\ \A c \in DOMAIN last'.row :
                           new[i][c] = StoreCell(last'.row[c])
       /\ (last'.op \in {"edit_av", "edit_reg"} /\ ~last'.ok) =>
            UNCHANGED <<avaliacoes_csv, registro_csv, treinos_sql>>]_vars

\* C6: an append reconciles the columns both ways: the stored columns are
\* those of the log and those of the new entries, a new entry has an absent
\* value in the columns it lacks and keeps its values in all its columns
C6_AppendReconcilesColumns ==
    [][(last'.op = "append_reg") =>
          LET n == Len(Registro.rows)
          IN /\ last'.ok
             /\ \A j \in DOMAIN ficha :
                   /\ Registro.cols \cup DOMAIN ficha[j] \subseteq Registro'.cols
                   /\ \A c \in Registro.cols \ (DOMAIN ficha[j] \cup {"ID"}) :
                         Registro'.rows[n + j][c] = None
                   /\ \A c \in DOMAIN ficha[j] :
                         Registro'.rows[n + j][c] = StoreCell(ficha[j][c])]_vars

\* C7: appending the k entries of the ficha to a log of n entries persists
\* n+k entries: the n old ones with their identifiers and fields, in order,
\* then the k new ones, none dropped for being equal to another
C7_AppendKeepsAll ==
    [][(last'.op = "append_reg") =>
          LET old == Registro.rows
              new == Registro'.rows
              n == Len(old)
          IN /\ Len(new) = n + Len(ficha)
             /\ \A i \in 1..n : \A c \in Registro.cols : new[i][c] = old[i][c]
             /\ \A j \in DOMAIN ficha :
                   \A c \in DOMAIN ficha[j] \cap Registro'.cols :
                      new[n + j][c] = StoreCell(ficha[j][c])]_vars

\* the same ficha saved twice: two stored entries that differ only in ID
C7_Witness ==
    /\ last.op = "append_reg"
    /\ Len(Registro.rows) = 2
    /\ \A c \in Registro.cols \ {"ID"} : Registro.rows[1][c] = Registro.rows[2][c]
    /\ Registro.rows[1]["ID"] # Registro.rows[2]["ID"]

\* the file the import of sheet wb writes
ImportOf(wb) == _write_csv(_ensure_id(_to_date_col(wb, "Data")))

\* the operations on the records of the assessment collection
RecordOps == {"add_av", "edit_av", "delete_av"}

\* once avaliacoes_db.csv exists a load returns it whatever the sheet holds
LoadReturnsPersisted ==
    \A wb \in Workbooks :
        _load_or_init_avaliacoes_db(wb, avaliacoes_csv).db
            = _load_or_init_avaliacoes_db(xlsx, avaliacoes_csv).db

C9_IdsImmutable ==
    [][/\ (last'.op \notin {"delete_av", "delete_reg", "reinit"}) =>
            /\ \A i \in DOMAIN avaliacoes_csv.rows :
                  /\ i \in DOMAIN avaliacoes_csv'.rows
                  /\ avaliacoes_csv'.rows[i]["ID"] = avaliacoes_csv.rows[i]["ID"]
            /\ \A i \in DOMAIN Registro.rows :
                  /\ i \in DOMAIN Registro'.rows
                  /\ Registro'.rows[i]["ID"] = Registro.rows[i]["ID"]
       /\ (last'.op = "delete_av") =>
            IdSeq(avaliacoes_csv'.rows)
               = SelectSeq(IdSeq(avaliacoes_csv.rows), LAMBDA id : id \notin last'.ids)
       /\ (last'.op = "delete_reg") =>
            IdSeq(Registro'.rows)
               = SelectSeq(IdSeq(Registro.rows), LAMBDA id : id \notin last'.ids)
       /\ avaliacoes_csv.exists =>
            \A db \in {avaliacao_db} : IdSeq(db.rows) = IdSeq(avaliacoes_csv.rows)
       /\ \A reg \in {_read_registro} : IdSeq(reg.rows) = IdSeq(Registro.rows)]_vars

\* after a deletion the entry that was second is first and still has the ID
\* made for the second position
C9_Witness ==
    /\ last.op = "delete_reg"
    /\ Len(Registro.rows) = 1
    /\ Registro.rows[1]["ID"] = HashId(Str("Alex"), Str("2024-01-01"), 1)

\* C10: where the add handler calls _recompute_derived, every raw field of
\* the row it passes is in the result with the same value, and the keys
\* that are new or changed in the result are derived fields
C10_RecomputeKeepsRaw ==
    [][(last'.op = "add_av" /\ last'.ok) =>
          LET base_cols == avaliacao_db.cols
              row == FormRaw([c \in base_cols |-> None], last'.row, base_cols)
              out == _recompute_derived(row, base_cols)
          IN /\ \A c \in DOMAIN row \ DerivedCols :
                   c \in DOMAIN out /\ out[c] = row[c]
             /\ \A c \in DOMAIN out :
                   (c \notin DOMAIN row \/ out[c] # row[c]) => c \in DerivedCols]_vars

\* C11: saving the assessment records and loading them again returns as many
\* records, with the same IDs and the same raw fields, and _recompute_derived
\* applied to a reloaded record gives the derived fields that are stored
C11_RoundTripRecompute ==
    avaliacoes_csv.exists =>
        \A db \in {avaliacao_db} :
            /\ Len(db.rows) = Len(avaliacoes_csv.rows)
            /\ IdSeq(db.rows) = IdSeq(avaliacoes_csv.rows)
            /\ \A i \in CreatedRows :
                  /\ \A c \in RawCols \cap avaliacoes_csv.cols :
                        CsvCell(db.rows[i][c]) = avaliacoes_csv.rows[i][c]
                  /\ \A c \in DerivedCols \cap avaliacoes_csv.cols :
                        CsvCell(_recompute_derived(db.rows[i], db.cols)[c])
                            = avaliacoes_csv.rows[i][c]

\* the derived fields _recompute_derived writes whatever the columns are
AlwaysDerived == {"IMC", "Classificação", "RCQ", "RISCO"}

\* C12: the load that imports the sheet returns every imported row with its
\* derived fields computed from its raw fields, whatever the sheet's own
\* derived columns hold
C12_ImportComputesDerived ==
    [][(~avaliacoes_csv.exists /\ avaliacoes_csv'.exists) =>
          \A db \in {_load_or_init_avaliacoes_db(xlsx', avaliacoes_csv).db} :
             /\ db.rows # <<>>
             /\ AlwaysDerived \subseteq db.cols
             /\ \A i \in DOMAIN db.rows : \A c \in DerivedCols \cap db.cols :
                   CsvCell(db.rows[i][c]) = CsvCell(FormulaOf(db.rows[i], c))]_vars

\* C13: on an empty log, saving one session of k entries of the same subject
\* and date and loading returns k entries with k distinct IDs (k = 3: three
\* IDs); deleting m of the loaded IDs leaves exactly the other entries (2 of
\* 3 deleted: one left)
C13_SessionIdsDistinct ==
    [][/\ (last'.op = "append_reg") =>
            /\ Len(_read_registro'.rows) = Len(ficha)
            /\ Cardinality(Ids(_read_registro')) = Len(ficha)
       /\ (last'.op = "delete_reg") =>
            /\ last'.ids \subseteq Ids(_read_registro)
            /\ Len(_read_registro'.rows) = Len(_read_registro.rows) - Cardinality(last'.ids)
            /\ Ids(_read_registro') = Ids(_read_registro) \ last'.ids]_vars

\* first and third entries of a three-entry session deleted, the second left
C13_Witness ==
    /\ last.op = "delete_reg"
    /\ last.ids = {HashId(Str("Alex"), Str("2024-01-01"), 0),
                   HashId(Str("Alex"), Str("2024-01-01"), 2)}
    /\ Ids(_read_registro) = {HashId(Str("Alex"), Str("2024-01-01"), 1)}
    /\ Len(_read_registro.rows) = 1

\* two loaded frames hold the same records: same columns, same number of
\* rows, and cell by cell the same value or both absent
SameRecords(a, b) ==
    /\ a.cols = b.cols
    /\ Len(a.rows) = Len(b.rows)
    /\ \A i \in DOMAIN a.rows : \A c \in a.cols :
          \/ a.rows[i][c] = b.rows[i][c]
          \/ IsNA(a.rows[i][c]) /\ IsNA(b.rows[i][c])

\* C14: after the same operations from an empty store, _read_registro
\* returns the same records with the same IDs and the same field values
\* from the CSV file and from the table
C14_BackendsAgree == SameRecords(ReadCsv, ReadSql)

\* the operations that create, update or delete a record of either kind
StoreOps == RecordOps \cup {"append_reg", "edit_reg", "delete_reg"}

\* C15: while the relational backend is enabled, a create, update or delete
\* of an assessment or of a workout entry leaves the flat files alone, and
\* the assessments a load returns are the rows of the table avaliacoes
C15_BackendOwnsRecords ==
    [][(db_enabled /\ last'.ok /\ last'.op \in StoreOps) =>
          /\ UNCHANGED <<avaliacoes_csv, registro_csv>>
          /\ (last'.op \in RecordOps) =>
                \A db \in {avaliacao_db} :
                   Ids(db) = {AsTypeStr(avaliacoes_sql.rows[i]["id"]) :
                                 i \in DOMAIN avaliacoes_sql.rows}]_vars

\* C16: a mutation is a read of the whole persisted collection, a change of
\* the copy in memory and a write of the whole copy, with no lock: what a
\* session saves is its own copy plus its new record, so a record another
\* session persisted after this session's read is gone after its write
C16_LastWriteWins ==
    [][\A s \in Sessoes :
          /\ (sessoes[s].pc = "add_av" /\ sessoes'[s].pc = "idle") =>
                IdSeq(avaliacoes_csv'.rows)
                    = IdSeq(sessoes[s].df.rows) \o <<last'.id>>
          /\ (sessoes[s].pc = "append_reg" /\ sessoes'[s].pc = "idle") =>
                /\ Len(Registro'.rows) = Len(sessoes[s].df.rows) + 1
                /\ \A i \in DOMAIN sessoes[s].df.rows : \A c \in sessoes[s].df.cols :
                      Registro'.rows[i][c] = StoreCell(sessoes[s].df.rows[i][c])
                /\ Registro'.rows[Len(Registro'.rows)]["Nome"] = last'.row["Nome"]]_vars

\* two sessions added an assessment each and only the second one is stored
C16_Witness ==
    /\ last.op = "add_av"
    /\ urandom = 2
    /\ \E i \in DOMAIN avaliacoes_csv.rows : avaliacoes_csv.rows[i]["ID"] = last.id
    /\ \A i \in DOMAIN avaliacoes_csv.rows :
          avaliacoes_csv.rows[i]["ID"][1] = "r" => avaliacoes_csv.rows[i]["ID"][4] = 1

\* the columns that hold measurements
NumericCols == RawCols \ {"Nome", "Data", "Sexo", "Observacoes"}

\* the persisted cell v of column c cannot be parsed
Malformed(c, v) ==
    \/ c = "Data" /\ IsText(v) /\ v \notin ValidDates
    \/ c \in NumericCols /\ IsText(v)

\* C17: the load returns as many records as the file has rows; a cell with
\* an unparseable date or with non-numeric text in a measurement column is
\* returned absent, every other cell as it is persisted
C17_LoadToleratesMalformed ==
    (last.op = "rerun" /\ last.ok) =>
        \A db \in {avaliacao_db} :
           /\ Len(db.rows) = Len(avaliacoes_csv.rows)
           /\ \A i \in DOMAIN avaliacoes_csv.rows : \A c \in avaliacoes_csv.cols :
                 IF Malformed(c, avaliacoes_csv.rows[i][c])
                 THEN IsNA(db.rows[i][c])
                 ELSE CsvCell(db.rows[i][c]) = avaliacoes_csv.rows[i][c]

\* C18: the load of the assessments at the start of a script run stops the
\* script only when there is neither a persisted file nor a sheet to import:
\* it succeeds whenever avaliacoes_db.csv exists, and a run that is stopped
\* writes nothing
C18_FatalOnlyWithoutBackend ==
    [][(last'.op \in {"rerun", "upload"}) =>
          /\ avaliacoes_csv.exists => last'.ok
          /\ ~last'.ok =>
                /\ ~SheetOk(xlsx')
                /\ UNCHANGED <<avaliacoes_csv, registro_csv, treinos_sql, avaliacoes_sql>>]_vars

\* C19: _calc_imc(peso, altura) is absent exactly when peso is absent,
\* altura is absent or altura <= 0; otherwise it is the number imc with
\* imc * altura * altura = peso, which is zero only for a weight of zero
C19_ImcAbsentOrQuotient ==
    (last.op = "_calc_imc") =>
        LET peso == last.row.peso
            altura == last.row.altura
            imc == last.row.imc
            noHeight == IsNumber(altura) /\ altura[1] <= 0
        IN /\ IsNA(imc) <=> (IsNA(peso) \/ IsNA(altura) \/ noHeight)
           /\ ~IsNA(imc) =>
                 /\ IsNumber(imc)
                 /\ imc[1] * altura[1] * altura[1] * peso[2]
                        = peso[1] * imc[2] * altura[2] * altura[2]
                 /\ imc[1] = 0 => peso[1] = 0
           /\ (IsNone(peso) \/ IsNone(altura) \/ noHeight) => IsNone(imc)

\* a weight of 80 kg and a height of 1.8 m gave 2000/81
C19_Witness ==
    /\ last.op = "_calc_imc"
    /\ last.row.peso = Num(80)
    /\ last.row.altura = <<9, 5>>
    /\ last.row.imc = <<2000, 81>>

\* the category of the claim for the number n/d
Categoria(n, d) ==
    IF 2 * n < 37 * d THEN "Baixo peso"
    ELSE IF n < 25 * d THEN "Peso normal"
    ELSE IF n < 30 * d THEN "Sobrepeso"
    ELSE IF n < 35 * d THEN "Obesidade Grau I"
    ELSE IF n < 40 * d THEN "Obesidade Grau II"
    ELSE "Obesidade Grau III"

\* C20: _classificacao_imc gives every BMI its category, with a BMI equal to
\* a threshold in the higher category, and gives an absent category for an
\* absent BMI
C20_ImcCategory ==
    (last.op = "_classificacao_imc") =>
        LET imc == last.row.imc
            imc_cls == last.row.imc_cls
        IN IF IsNA(imc) THEN IsNone(imc_cls)
           ELSE imc_cls = Str(Categoria(imc[1], imc[2]))

\* the three skinfolds the formula of the sex adds up, in the order added
Required(sexo, d_pe, d_ab, d_cx, d_si, d_tr) ==
    IF sexo = Str("Homem") THEN <<d_pe, d_ab, d_cx>> ELSE <<d_tr, d_si, d_cx>>

\* C21: _calc_dc_jp3 is absent exactly when the sex is neither "Homem" nor
\* "Mulher", the age is absent or one of the three skinfolds of the sex
\* (men: chest, abdomen, thigh; women: triceps, suprailiac, thigh) is
\* absent; the two other skinfolds never change the result; and two calls
\* with the same sex, age and sum of the three skinfolds give the same result
C21_DensityRequiredSites ==
    (last.op = "_calc_dc_jp3" /\ last.ok) =>
        LET r == last.row
            req == Required(r.sexo, r.d_pe, r.d_ab, r.d_cx, r.d_si, r.d_tr)
            noSex == r.sexo \notin {Str("Homem"), Str("Mulher")}
        IN /\ IsNA(r.dc) <=>
                 (noSex \/ IsNA(r.idade) \/ \E i \in 1..3 : IsNA(req[i]))
           /\ ~IsNA(r.dc) => IsNumber(r.dc)
           /\ (noSex \/ IsNone(r.idade) \/ \E i \in 1..3 : IsNone(req[i]))
                 => IsNone(r.dc)
           /\ \A a, b \in Dobras :
                 IF r.sexo = Str("Homem")
                 THEN _calc_dc_jp3(r.sexo, r.idade, r.d_pe, r.d_ab, r.d_cx, a, b) = r.dc
                 ELSE _calc_dc_jp3(r.sexo, r.idade, a, b, r.d_cx, r.d_si, r.d_tr) = r.dc
           /\ ~IsNA(r.dc) =>
                 \A a, b, c \in Dobras \ {None, NaN} :
                    RAdd(RAdd(a, b), c) = RAdd(RAdd(req[1], req[2]), req[3])
                       => IF r.sexo = Str("Homem")
                          THEN _calc_dc_jp3(r.sexo, r.idade, a, b, c, None, None) = r.dc
                          ELSE _calc_dc_jp3(r.sexo, r.idade, None, None, c, b, a) = r.dc

\* a woman of 30 with triceps 10, suprailiac 20 and thigh 10 and without the
\* chest and abdomen skinfolds got a density
C21_Witness ==
    /\ last.op = "_calc_dc_jp3" /\ last.ok
    /\ last.row.sexo = Str("Mulher")
    /\ last.row.idade = Num(30)
    /\ IsNone(last.row.d_pe) /\ IsNaN(last.row.d_ab)
    /\ last.row.d_tr = Num(10) /\ last.row.d_si = Num(20) /\ last.row.d_cx = Num(10)
    /\ IsNumber(last.row.dc)

\* C22: _calc_gordura_siri(dc) is absent exactly when dc is absent or
\* dc <= 0; otherwise it is the number g with (g + 450) * dc = 495; a
\* density of zero gives an absent result, never a division by zero
C22_SiriAbsentOrFormula ==
    (last.op = "_calc_gordura_siri" /\ last.ok) =>
        LET dc == last.row.dc
            g == last.row.gordura
            notPositive == IsNumber(dc) /\ dc[1] <= 0
        IN /\ IsNA(g) <=> (IsNA(dc) \/ notPositive)
           /\ (IsNone(dc) \/ notPositive) => IsNone(g)
           /\ ~IsNA(g) =>
                 /\ IsNumber(g)
                 /\ (g[1] + 450 * g[2]) * dc[1] = 495 * g[2] * dc[2]

\* a density of 1.05 gave 495/1.05 - 450 = 150/7
C22_Witness ==
    /\ last.op = "_calc_gordura_siri" /\ last.ok
    /\ last.row.dc = <<21, 20>>
    /\ last.row.gordura = <<150, 7>>

\* the risk level of the claim for the ratio n/d of a man or a woman
Risco(homem, n, d) ==
    IF homem
    THEN IF 10 * n < 9 * d THEN "Baixo Risco"
         ELSE IF n < d THEN "Risco Moderado"
         ELSE "Alto Risco"
    ELSE IF 5 * n < 4 * d THEN "Baixo Risco"
         ELSE IF 20 * n < 17 * d THEN "Risco Moderado"
         ELSE "Alto Risco"

\* C23: _classificacao_rcq is absent exactly when the ratio is absent or the
\* sex is neither "Homem" nor "Mulher"; otherwise it is the one risk level
\* of the ratio, with a ratio equal to a threshold in the higher level (men:
\* low below 0.90, moderate below 1.00, else high; women: low below 0.80,
\* moderate below 0.85, else high)
C23_RcqRisk ==
    (last.op = "_classificacao_rcq" /\ last.ok) =>
        LET sexo == last.row.sexo
            rcq == last.row.rcq
            risco == last.row.risco
        IN IF IsNA(rcq) \/ sexo \notin {Str("Homem"), Str("Mulher")}
           THEN IsNone(risco)
           ELSE risco = Str(Risco(sexo = Str("Homem"), rcq[1], rcq[2]))

\* C24 as stated: a man's ratio of 0.89 is low risk, a man's ratio of 0.90
\* is moderate risk and a woman's ratio of exactly 0.85 is moderate risk
C24_BoundaryAsStated ==
    (last.op = "_classificacao_rcq" /\ last.ok) =>
        /\ (last.row.sexo = Str("Homem") /\ last.row.rcq = <<89, 100>>)
              => last.row.risco = Str("Baixo Risco")
        /\ (last.row.sexo = Str("Homem") /\ last.row.rcq = <<9, 10>>)
              => last.row.risco = Str("Risco Moderado")
        /\ (last.row.sexo = Str("Mulher") /\ last.row.rcq = <<17, 20>>)
              => last.row.risco = Str("Risco Moderado")

\* C24: a man's ratio of 0.89 is low risk and a man's ratio of 0.90 is
\* moderate risk; a woman's ratio of exactly 0.85 is high risk, and her
\* ratio of 0.84 is moderate risk
C24_Boundary ==
    (last.op = "_classificacao_rcq" /\ last.ok) =>
        /\ (last.row.sexo = Str("Homem") /\ last.row.rcq = <<89, 100>>)
              => last.row.risco = Str("Baixo Risco")
        /\ (last.row.sexo = Str("Homem") /\ last.row.rcq = <<9, 10>>)
              => last.row.risco = Str("Risco Moderado")
        /\ (last.row.sexo = Str("Mulher") /\ last.row.rcq = <<17, 20>>)
              => last.row.risco = Str("Alto Risco")
        /\ (last.row.sexo = Str("Mulher") /\ last.row.rcq = <<21, 25>>)
              => last.row.risco = Str("Risco Moderado")

\* a woman's ratio of exactly 0.85 was classified
C24_Witness ==
    /\ last.op = "_classificacao_rcq" /\ last.ok
    /\ last.row.sexo = Str("Mulher")
    /\ last.row.rcq = <<17, 20>>
    /\ ~IsNone(last.row.risco)

\* the measurement c of the row is zero, absent or not a number
NaoInformado(row, c) == ~IsNumber(Get(row, c)) \/ Get(row, c)[1] = 0

Count(s, e) == Cardinality({i \in DOMAIN s : s[i] = e})

\* the exercises of every pair of the data whose label equals the request
\* after normalisation
ExsOfGroup(dados, group_name) ==
    LET IsG(p) == _norm(p[1]) = _norm(group_name)
        ps == SelectSeq(dados, IsG)
    IN CleanExs([i \in DOMAIN ps |-> ps[i][2]])

\* C26: in the long and in the wide shape of the same data,
\* _get_exs_for_group returns for the requested group all the exercises of
\* every group label that equals the request after normalisation
C26_CatalogLookup ==
    (last.op = "_get_exs_for_group" /\ last.ok) =>
        LET expected == ExsOfGroup(last.row.dados, last.row.group_name)
            exs_g == last.row.exs_g
        IN /\ Len(exs_g) = Len(expected)
           /\ \A e \in CatExs : Count(exs_g, e) = Count(expected, e)

\* C27: adding an item to the ficha, generating a template and clearing the
\* ficha leave the persisted workout log unchanged, and the log gains
\* entries only in the step of "Salvar no registro", which adds one entry
\* per item of the ficha
C27_FichaIsTransient ==
    [][/\ (last'.op \in {"add_ficha", "gerar_ficha", "clear_ficha"})
             => UNCHANGED <<registro_csv, treinos_sql>>
       /\ (Len(Registro'.rows) > Len(Registro.rows))
             => /\ last'.op = "append_reg"
                /\ Len(Registro'.rows) = Len(Registro.rows) + Len(ficha)]_vars

\* a generated ficha holds two items while the log has no entry
C27_Witness ==
    /\ last.op = "gerar_ficha"
    /\ Len(ficha) = 2
    /\ Registro.rows = <<>>

\* C28: while IS_STUDENT is true no user action changes the persisted
\* assessments or the persisted workout log, whatever the session state was
\* when the mode was switched on
C28_StudentReadOnly ==
    [][(IS_STUDENT /\ IS_STUDENT' /\ last'.op # "rerun")
          => UNCHANGED <<avaliacoes_csv, avaliacoes_sql, registro_csv, treinos_sql>>]_vars

\* the confirmation flag of the behaviour's record kind
ConfirmFlag == IF kind = "avaliacoes" THEN confirm_delete ELSE confirm_del_treinos

\* the identifiers a step removes from the persisted collection
Removed == PersistedIds \ PersistedIds'

\* the two steps of a deletion: identifiers leave the persisted collection
\* only in a confirm step taken with the flag set (the re-initialisation,
\* which replaces the collection by the sheet, is not a deletion); the flag
\* is set only by the request button with at least one row ticked; confirm
\* resets the flag; cancel resets the flag and writes nothing
DeleteProtocol ==
    /\ (Removed # {} /\ last'.op # "reinit")
          => (last'.op \in {"delete_av", "delete_reg"} /\ ConfirmFlag)
    /\ (~ConfirmFlag /\ ConfirmFlag')
          => (last'.op \in {"ask_delete_av", "ask_delete_reg"} /\ last'.ids # {})
    /\ (last'.op \in {"delete_av", "delete_reg"}) => (ConfirmFlag /\ ~ConfirmFlag')
    /\ (last'.op \in {"cancel_delete_av", "cancel_delete_reg"})
          => /\ ~ConfirmFlag'
             /\ UNCHANGED <<avaliacoes_csv, avaliacoes_sql, registro_csv, treinos_sql>>

\* C29 as stated: deletion follows the two steps, and the identifiers a
\* confirm removes are the ones ticked when the request button was pressed
C29_RemovesRequested ==
    [][/\ DeleteProtocol
       /\ (last.op \in {"ask_delete_av", "ask_delete_reg"}
             /\ last'.op \in {"delete_av", "delete_reg"})
             => Removed = last.ids]_vars

\* C30: whenever the form "Editar treino selecionado" is drawn,
\* edit_treino_id is the ID of an entry of the workout log as the run reads
\* it, and the lookup of that entry does not raise
C30_EditIdPresent ==
    /\ (PaginaOk("treinos") /\ ~IsNone(edit_treino_id))
          => RowsWithId(_read_registro, edit_treino_id) # {}
    /\ (last.op = "edit_reg") => last.ok
====
